---- MODULE Spec2Model ----
(***************************************************************************)
(* Breast-cancer clinical-trials pipeline.                                 *)
(*                                                                         *)
(* SpecFetch  : retrieval/clinicaltrials_api.py, fetch_breast_cancer_trials*)
(*              with the HTTP loop of _http_get_json run inside it.         *)
(* SpecEnrich : processing/endpoints_layer.py and reporting_layer.py, the  *)
(*              per-row enrichment (layer A, then layer B).                *)
(*                                                                         *)
(* Python's None is the string NONE, a missing CSV cell (pandas NaN) is    *)
(* the string NAN.  A text is the sequence of its tokens: words (case      *)
(* kept) and punctuation marks.                                            *)
(***************************************************************************)
EXTENDS Integers, Sequences, FiniteSets, TLC

NONE == "None"
NAN == "NaN"

\* ------------------------------------------------------------------ bounds
\* pages the registry serves before it stops handing out a continuation token
MaxPages == 2
\* studies on one page
MaxStudies == 2
\* consecutive responses of one call that neither return, raise nor count as
\* a retry (the loop of _http_get_json has no bound of its own for them)
MaxSpin == 1
\* largest max_records a caller passes
MaxRecordsArg == 3

\* rows of the input file of a pipeline run, at most
MaxRows == 201
\* rows of the enhanced dataset the momentum report reads, at most
MaxTrials == 2
\* rows of the enhanced dataset the shortlist report reads, at most
MaxListed == 2
\* largest attempts parameter given to retry
MaxAttempts == 3
\* candidates of all page files together, at most
MaxCands == 3
\* page_NNN.txt files in the pages directory, at most
MaxPageFiles == 2
\* rows of the enhanced dataset the NM/EI report reads, at most
MaxCohortTrials == 2

\* processing/pipeline.py: write checkpoint every N rows
ROW_FLUSH_EVERY == 100

ToSet(s) == {s[i] : i \in DOMAIN s}

\* Python truthiness of an optional string
Truthy(v) == v # NONE /\ v # ""

\* ======================================================================
\*                    retrieval/clinicaltrials_api.py
\* ======================================================================

\* default of the retries parameter of _http_get_json
Retries == 4

RetryStatuses == {429, 500, 502, 503, 504}

\* statuses the registry may answer with
Statuses == {200, 204, 304, 400, 404} \cup RetryStatuses

RaiseForStatusRaises_never(status) == FALSE

\* requests.Response.raise_for_status raises for 4xx and 5xx only
RaiseForStatusRaises(status) == status >= 400 /\ status < 600

RetriesExceeded_off(attempt, retries) == attempt >= retries

\* "if attempt > retries: raise", attempt already incremented
RetriesExceeded(attempt, retries) == attempt > retries

\* One iteration of the while loop of _http_get_json on a response with the
\* given status; jsonOk says whether resp.json() parses.  kind is what the
\* iteration ends in: "return", "raise" (with the error) or "continue".
HttpIteration(status, jsonOk, attempt) ==
    IF status = 200
    THEN IF jsonOk
         THEN [kind |-> "return", error |-> NONE, attempt |-> attempt, slept |-> FALSE]
         ELSE [kind |-> "raise", error |-> "RuntimeError: Invalid JSON",
               attempt |-> attempt, slept |-> FALSE]
    ELSE IF status \in RetryStatuses
    THEN IF RetriesExceeded(attempt + 1, Retries)
         THEN [kind |-> "raise", error |-> "HTTPError: Exceeded retries",
               attempt |-> attempt + 1, slept |-> FALSE]
         ELSE [kind |-> "continue", error |-> NONE, attempt |-> attempt + 1, slept |-> TRUE]
    ELSE IF status = 404
    THEN [kind |-> "raise", error |-> "HTTPError: 404", attempt |-> attempt, slept |-> FALSE]
    ELSE IF RaiseForStatusRaises(status)
    THEN [kind |-> "raise", error |-> "HTTPError: status", attempt |-> attempt, slept |-> FALSE]
    ELSE [kind |-> "continue", error |-> NONE, attempt |-> attempt, slept |-> FALSE]

\* ------------------------------------------------------------ input data
NctIds == {"NCT1", "NCT2"}

\* start_date cells: registry dates (year-month or full), or no date
StartDates == {"2009-06", "2010-03-01", NONE}

\* pd.to_datetime(errors="coerce").dt.year: the year, or nothing (NaT/NaN,
\* the empty set) for a missing date
StartYearOf(date) ==
    IF date = "2009-06" THEN {2009}
    ELSE IF date = "2010-03-01" THEN {2010}
    ELSE {}

\* the form of a registry date, as pandas guesses it from the string
DateFormat(date) ==
    IF date = "2009-06" THEN "%Y-%m"
    ELSE IF date = "2010-03-01" THEN "%Y-%m-%d"
    ELSE NONE

RECURSIVE FirstDateFormat(_)
\* the format of the first non-null start_date of the column
FirstDateFormat(rows) ==
    IF rows = <<>> THEN NONE
    ELSE IF Head(rows).start_date # NONE THEN DateFormat(Head(rows).start_date)
    ELSE FirstDateFormat(Tail(rows))

\* One cell of pd.to_datetime(df["start_date"], errors="coerce").dt.year.
\* The repository pins no pandas version: pandas 2 and later parse the whole
\* column with the format of its first non-null element (oneFormat) and
\* coerce a date of another form to NaT; earlier versions parse each element
\* on its own.
DerivedStartYear(date, fmt, oneFormat) ==
    IF oneFormat /\ date # NONE /\ DateFormat(date) # fmt THEN {}
    ELSE StartYearOf(date)

\* the (start_year, end_year) arguments tried: no bound, and the defaults
YearArgs == {<<{}, {}>>, <<{2010}, {2025}>>}

Titles == {"t1"}

MkSite(fac, city, st, zip, country, status) ==
    [facility |-> fac, city |-> city, state |-> st, postal_code |-> zip,
     country |-> country, site_status |-> status]

siteA == MkSite("Clinic", "Lyon", NONE, "69", "France", "RECRUITING")
\* siteA with another status only
siteB == MkSite("Clinic", "Lyon", NONE, "69", "France", "COMPLETED")
\* no facility name and no country
siteC == MkSite(NONE, "Bonn", NONE, NONE, NONE, NONE)

\* the locations of a study ("locations or []": a missing block is <<>>)
LocationValues == {<<>>, <<siteA, siteB>>, <<siteC, siteA>>}

\* a study of the registry, reduced to what the accumulation reads
StudyValues ==
    [nctId : NctIds, briefTitle : Titles, startDate : StartDates, locations : LocationValues]
    \cup {[nctId |-> NONE, briefTitle |-> "t1", startDate |-> "2010-03-01", locations |-> <<siteA>>]}

\* nextPageToken of the page answering request number req: absent, empty, or
\* the token of the page that follows
PageTokenOf(req) == IF req = 1 THEN "tok2" ELSE IF req = 2 THEN "tok3" ELSE "tok4"

TokenValues(req) == {NONE, "", PageTokenOf(req)}

\* _extract_trial_fields: the trial record, or nothing (None, the empty set)
\* when the study has no nctId
ExtractTrialFields(study) ==
    IF ~Truthy(study.nctId) THEN {}
    ELSE {[nct_id |-> study.nctId, title |-> study.briefTitle, start_date |-> study.startDate]}

\* _extract_sites: one site row per location
ExtractSites(study) == study.locations

SiteKey_nostatus(s) == <<s.facility, s.city, s.state, s.postal_code, s.country>>

\* the dedup key of a site
SiteKey(s) == <<s.facility, s.city, s.state, s.postal_code, s.country, s.site_status>>

RECURSIVE DedupSites(_, _, _)
\* the "for s in sites" loop that keeps the first site of every key
DedupSites(sites, seen, deduped) ==
    IF sites = <<>> THEN deduped
    ELSE LET s == Head(sites) IN
         IF SiteKey(s) \notin seen
         THEN DedupSites(Tail(sites), seen \cup {SiteKey(s)}, Append(deduped, s))
         ELSE DedupSites(Tail(sites), seen, deduped)

\* one item of sites_compact: "fac [city, country]", or fac alone
CompactItem(s) ==
    LET fac == IF Truthy(s.facility) THEN s.facility ELSE ""
        city == IF Truthy(s.city) THEN s.city ELSE ""
        country == IF Truthy(s.country) THEN s.country ELSE ""
        parts == SelectSeq(<<city, country>>, LAMBDA p : p # "")
    IN  <<fac, parts>>

\* the row built for one trial after the pagination loop; site_countries is
\* the set of the sorted unique countries and sites_compact the list of its
\* items (None in the code when empty)
BuildRow(t, accumulated) ==
    LET sites == IF accumulated # <<>> THEN DedupSites(accumulated, {}, <<>>) ELSE accumulated
        countries == {sites[i].country : i \in DOMAIN sites} \ {NONE, ""}
    IN  [nct_id |-> t.nct_id, title |-> t.title, start_date |-> t.start_date,
         site_count |-> Len(sites),
         site_countries |-> countries,
         sites_compact |-> [i \in DOMAIN sites |-> CompactItem(sites[i])]]

\* the start year of the row's own date lies within the bounds, each applied
\* when it is not None; a row without a year is outside any bound
InYearRange(row, lo, hi) ==
    /\ \A l \in lo : \E y \in StartYearOf(row.start_date) : y >= l
    /\ \A h \in hi : \E y \in StartYearOf(row.start_date) : y <= h

\* sort_values(["nct_id"]): stable sort on the identifier
NctRank(n) == IF n = "NCT1" THEN 1 ELSE 2

SortByNct(rows) ==
    SelectSeq(rows, LAMBDA r : NctRank(r.nct_id) = 1) \o
    SelectSeq(rows, LAMBDA r : NctRank(r.nct_id) = 2)

RECURSIVE DropDuplicates(_, _)
\* drop_duplicates(subset=["nct_id"], keep="first")
DropDuplicates(rows, seen) ==
    IF rows = <<>> THEN <<>>
    ELSE IF Head(rows).nct_id \in seen
    THEN DropDuplicates(Tail(rows), seen)
    ELSE <<Head(rows)>> \o DropDuplicates(Tail(rows), seen \cup {Head(rows).nct_id})

\* the year filter, the sort and the second dedup before the last to_csv
FilterTable(rows, lo, hi, oneFormat) ==
    LET fmt == FirstDateFormat(rows)
        kept(r) == LET years == DerivedStartYear(r.start_date, fmt, oneFormat)
                   IN  /\ \A l \in lo : \E y \in years : y >= l
                       /\ \A h \in hi : \E y \in years : y <= h
    IN  DropDuplicates(SortByNct(SelectSeq(rows, kept)), {})

\* What the registry may answer to the page request number req: a number of
\* studies and a nextPageToken; the last page it has carries no usable token.
\* The study at a position of the page is drawn from StudyValues when the for
\* loop reads that position.
PageValues(req) ==
    [studies : 0..MaxStudies,
     nextPageToken : IF req < MaxPages THEN TokenValues(req) ELSE {NONE, ""}]

ParamsToken_never(token) == NONE

\* "if page_token: params["pageToken"] = page_token": the pageToken parameter
\* of the request, NONE when the parameter is left out
ParamsToken(token) == IF Truthy(token) THEN token ELSE NONE

EmptyPage == [studies |-> 0, nextPageToken |-> NONE]

VARIABLES
    \* ---- fetch_breast_cancer_trials
    pc,            \* where fetch_breast_cancer_trials is
    max_records, start_year, end_year,     \* its arguments
    trials,        \* nct_id -> trial record
    trial_sites,   \* nct_id -> list of accumulated sites
    nct_order,     \* identifiers in arrival order
    page_token,    \* continuation token for the next request
    data,          \* the page being processed
    idx,           \* position of the for loop in data.studies
    df,            \* the table (the value returned at the end)
    csv,           \* content of the file at save_csv_path
    csv_writes,    \* number of to_csv calls so far (0: no file written)
    \* ---- _http_get_json (the call in progress)
    attempt,       \* its attempt counter
    resp_status,   \* status of the last response (0: none yet)
    error,         \* the exception that ended fetch, or NONE
    \* ---- history
    call_sent,     \* HTTP requests sent by the call in progress
    retried,       \* sleeps (retries) of the call in progress
    transients,    \* responses with a retry status in the call in progress
    spins,         \* iterations that went round without sleeping
    page_reqs,     \* calls of _http_get_json
    sent_token,    \* pageToken parameter of the last request (NONE: not sent)
    prev_next,     \* nextPageToken of the last page received
    page_final,    \* a page came back with no studies or no nextPageToken
    seen_sites,    \* nct_id -> sites of all studies visited with that id
    first_fields,  \* nct_id -> the trial record of the first study visited
    first_sites,   \* nct_id -> the sites of the first study visited
    \* ---- the enrichment of a row (processing/pipeline.py)
    epc,           \* where the enrichment is
    syn_file,      \* entries of endpoint_synonyms.json
    dict_file,     \* the endpoint dictionary found, if any
    has_client,    \* whether an LLM client is configured
    row,           \* the input row
    resources,     \* EndpointResources
    ep_cols,       \* columns of layer A (annotate_endpoints_for_row)
    rep_cols,      \* columns of layer B (annotate_reporting_for_row)
    reported,      \* canonical endpoints layer B mapped from the result titles
    llm_calls,     \* texts sent to classify_endpoint, in order
    \* ---- annotate_classification_for_row on one row
    cpc,           \* "idle", "call" (the layer is about to run), "returned"
    cls_row,       \* the row given to the layer
    cls_client,    \* whether a client is given
    cls_answer,    \* what client.classify_nm_ei did, if it was called
    cls_cols,      \* the columns the layer returned
    \* ---- run() of processing/pipeline.py on a whole input file
    rpc,           \* where run() is
    raw_csv,       \* what INPUT_CSV is: "missing", "blank", "header", "rows"
    run_syn,       \* entries of endpoint_synonyms.json
    run_dict,      \* the endpoint dictionary found, if any
    run_client,    \* whether _init_llm_client returns a client
    run_resources, \* resources, once built
    row_dict,      \* the row in progress: its position, the input row, the
                   \* columns added so far and the layers applied, in order
    rows_out,      \* positions (1-based) of the input rows appended so far
    ckpt,          \* rows in the checkpoint files (CSV and Parquet)
    ckpt_at,       \* numbers of processed rows at which a checkpoint was written
    out_files,     \* rows in the three output files, once written
    run_error,     \* where an exception ended run(), or NONE
    \* ---- main() of analytics/01_momentum.py
    mpc,           \* "idle", "load", "masks", "done"
    m_today,       \* pd.Timestamp.today().normalize(), as a day number
    m_one_format,  \* whether to_datetime parses a column with one format
    m_table,       \* rows of the enhanced dataset read
    m_masks,       \* the per-record policy masks
    g_out,         \* the per-year counts
    \* ---- main() of analytics/07_priority_shortlists.py
    spc,           \* "idle", "load", "written"
    s_year,        \* pd.Timestamp.now().year
    s_table,       \* rows of the enhanced dataset read
    shortlists,    \* rows written to the four shortlist files
    \* ---- a call of a function wrapped by retry (utils/helpers.py)
    tpc, \* "idle", "loop", "returned", "raised"
    t_attempts, \* the attempts parameter
    t_delay, \* the delay_sec parameter
    t_backoff, \* the backoff parameter
    t_i, \* the loop variable i
    t_wait, \* the local wait
    t_last_exc, \* last_exc: the number of the call whose exception it holds, 0 for None
    t_calls, \* calls of the wrapped function so far
    t_sleeps, \* the durations slept, in order
    t_result,\* how the call ended
    \* ---- taug_extraction/rollup_dictionary.py
    kpc, \* where the roll-up is: flatten, group or done
    k_use_llm, \* the use_llm argument
    k_cands, \* candidates of the page files, in sorted file order, still to flatten
    k_df, \* rows of the flattened frame
    k_i, \* 1-based position of the next row to put in a bucket
    k_buckets, \* buckets in insertion order, each a key and its items
    k_j, \* 1-based position of the next bucket to merge
    k_merged,\* the merged dictionary in insertion order
    \* ---- taug_extraction/page_extractor.py
    xpc, \* where extract_pages is: start, client, returned or raised
    x_key, \* whether OPENAI_API_KEY is set
    x_files, \* the page_NNN.txt files of pages_dir in sorted order, each with its text and whether its JSON exists
    x_limit, \* the limit argument, {} for None
    x_overwrite, \* the overwrite argument
    x_dirs, \* whether the data folders have been created
    x_json, \* what the JSON file of each page holds
    x_written, \* the list written, as positions of pages
    x_error,\* the exception extract_pages raised
    \* ---- analytics/03_nm_vs_ei.py
    qpc, \* where the report is: load or done
    q_today, \* today, as a day number
    q_one_format, \* whether to_datetime reads the column with one format
    q_table, \* the rows of the enhanced dataset
    q_masks, \* the three cohort masks and the eligible mask, per row
    q_rows \* the rows of the cohort table, in order

fetchVars == <<pc, max_records, start_year, end_year, trials, trial_sites, nct_order,
               page_token, data, idx, df, csv, csv_writes>>
httpVars == <<attempt, resp_status, error>>
histVars == <<call_sent, retried, transients, spins, page_reqs, sent_token,
              prev_next, page_final, seen_sites, first_fields, first_sites>>

enrichVars == <<epc, syn_file, dict_file, has_client, row, resources, ep_cols, rep_cols,
                reported, llm_calls>>

clsVars == <<cpc, cls_row, cls_client, cls_answer, cls_cols>>

runVars == <<rpc, raw_csv, run_syn, run_dict, run_client, run_resources, row_dict,
             rows_out,
             ckpt, ckpt_at, out_files, run_error>>

momentumVars == <<mpc, m_today, m_one_format, m_table, m_masks, g_out>>

shortlistVars == <<spc, s_year, s_table, shortlists>>

retryVars == <<tpc, t_attempts, t_delay, t_backoff, t_i, t_wait, t_last_exc, t_calls, t_sleeps, t_result>>

rollupVars == <<kpc, k_use_llm, k_cands, k_df, k_i, k_buckets, k_j, k_merged>>

extractVars == <<xpc, x_key, x_files, x_limit, x_overwrite, x_dirs, x_json, x_written, x_error>>

cohortVars == <<qpc, q_today, q_one_format, q_table, q_masks, q_rows>>

\* the variables that each operation leaves alone
notFetch ==
    <<enrichVars, clsVars, runVars, momentumVars, shortlistVars, retryVars,
      rollupVars, extractVars, cohortVars>>
notEnrich ==
    <<fetchVars, httpVars, histVars, clsVars, runVars, momentumVars, shortlistVars,
      retryVars, rollupVars, extractVars, cohortVars>>
notClassify ==
    <<fetchVars, httpVars, histVars, enrichVars, runVars, momentumVars,
      shortlistVars, retryVars, rollupVars, extractVars, cohortVars>>
notRun ==
    <<fetchVars, httpVars, histVars, enrichVars, clsVars, momentumVars,
      shortlistVars, retryVars, rollupVars, extractVars, cohortVars>>
notMomentum ==
    <<fetchVars, httpVars, histVars, enrichVars, clsVars, runVars, shortlistVars,
      retryVars, rollupVars, extractVars, cohortVars>>
notShortlist ==
    <<fetchVars, httpVars, histVars, enrichVars, clsVars, runVars, momentumVars,
      retryVars, rollupVars, extractVars, cohortVars>>
notRetry ==
    <<fetchVars, httpVars, histVars, enrichVars, clsVars, runVars, momentumVars,
      shortlistVars, rollupVars, extractVars, cohortVars>>
notRollup ==
    <<fetchVars, httpVars, histVars, enrichVars, clsVars, runVars, momentumVars,
      shortlistVars, retryVars, extractVars, cohortVars>>
notExtract ==
    <<fetchVars, httpVars, histVars, enrichVars, clsVars, runVars, momentumVars,
      shortlistVars, retryVars, rollupVars, cohortVars>>
notCohorts ==
    <<fetchVars, httpVars, histVars, enrichVars, clsVars, runVars, momentumVars,
      shortlistVars, retryVars, rollupVars, extractVars>>

vars ==
    <<fetchVars, httpVars, histVars, enrichVars, clsVars, runVars, momentumVars,
      shortlistVars, retryVars, rollupVars, extractVars, cohortVars>>

EmptyMap == [n \in {} |-> <<>>]

\* fetch_breast_cancer_trials is called (start = TRUE) or not part of the run
FetchInit(start) ==
    /\ pc = IF start THEN "request" ELSE "idle"
    /\ max_records \in IF start THEN 0..MaxRecordsArg ELSE {0}
    /\ \E ya \in (IF start THEN YearArgs ELSE {<<{}, {}>>}) :
           /\ start_year = ya[1]
           /\ end_year = ya[2]
    /\ trials = EmptyMap /\ trial_sites = EmptyMap /\ nct_order = <<>>
    /\ page_token = NONE /\ data = EmptyPage /\ idx = 0
    /\ df = <<>> /\ csv = <<>> /\ csv_writes = 0
    /\ attempt = 0 /\ resp_status = 0 /\ error = NONE
    /\ call_sent = 0 /\ retried = 0 /\ transients = 0 /\ spins = 0
    /\ page_reqs = 0 /\ sent_token = NONE /\ prev_next = NONE
    /\ page_final = FALSE
    /\ seen_sites = [n \in NctIds |-> {}]
    /\ first_fields = [n \in NctIds |-> {}]
    /\ first_sites = [n \in NctIds |-> {}]

\* One iteration of the loop of _http_get_json inside the page request of
\* fetch_breast_cancer_trials: a request is sent with the current params and
\* the response (status, body) is handled.
HttpStep(status, jsonOk, page) ==
    LET r == HttpIteration(status, jsonOk, attempt) IN
    /\ pc = "request"
    /\ (r.kind = "continue" /\ ~r.slept) => spins < MaxSpin
    /\ resp_status' = status
    /\ call_sent' = call_sent + 1
    /\ page_reqs' = IF call_sent = 0 THEN page_reqs + 1 ELSE page_reqs
    /\ sent_token' = ParamsToken(page_token)
    /\ transients' = IF status \in RetryStatuses THEN transients + 1 ELSE transients
    /\ attempt' = r.attempt
    /\ retried' = IF r.slept THEN retried + 1 ELSE retried
    /\ spins' = IF r.kind = "continue" /\ ~r.slept THEN spins + 1 ELSE spins
    /\ IF r.kind = "return"
       THEN /\ data' = page
            /\ pc' = "page"
            /\ prev_next' = page.nextPageToken
            /\ page_final' = (page.studies = 0 \/ ~Truthy(page.nextPageToken))
            /\ error' = error
       ELSE /\ pc' = IF r.kind = "raise" THEN "raised" ELSE "request"
            /\ error' = r.error
            /\ UNCHANGED <<data, prev_next, page_final>>
    /\ UNCHANGED <<max_records, start_year, end_year, trials, trial_sites, nct_order,
                   page_token, idx, df, csv, csv_writes, seen_sites, first_fields,
                   first_sites>>
    /\ UNCHANGED notFetch

\* the registry answers 200 with a JSON page
HttpPage == \E page \in PageValues(IF call_sent = 0 THEN page_reqs + 1 ELSE page_reqs) :
                HttpStep(200, TRUE, page)

\* the registry answers 200 with a body that is not JSON
HttpBadBody == HttpStep(200, FALSE, EmptyPage)

\* the registry answers with another status
HttpOther == \E status \in Statuses \ {200} : HttpStep(status, TRUE, EmptyPage)

\* _http_get_json has returned (its locals are gone):
\* "studies = data.get("studies", []) or []; if not studies: break"
CheckPage ==
    /\ pc = "page"
    /\ IF data.studies = 0
       THEN pc' = "build" /\ idx' = idx
       ELSE pc' = "for" /\ idx' = 1
    /\ attempt' = 0 /\ call_sent' = 0 /\ retried' = 0 /\ transients' = 0 /\ spins' = 0
    /\ UNCHANGED <<max_records, start_year, end_year, trials, trial_sites, nct_order,
                   page_token, data, df, csv, csv_writes, resp_status, error>>
    /\ UNCHANGED <<page_reqs, sent_token, prev_next, page_final, seen_sites, first_fields,
                   first_sites>>
    /\ UNCHANGED notFetch

\* One iteration of "for study in studies".
ProcessStudy ==
    /\ pc = "for"
    /\ idx \in 1..data.studies
    /\ \E study \in StudyValues :
       LET tr == ExtractTrialFields(study)
           last == idx + 1 > data.studies
       IN  IF tr = {}
              THEN \* "if not trial: continue"
                   /\ idx' = idx + 1
                   /\ pc' = IF last THEN "after_for" ELSE "for"
                   /\ UNCHANGED <<trials, trial_sites, nct_order, seen_sites, first_fields,
                                   first_sites>>
              ELSE LET trial == CHOOSE t \in tr : TRUE
                       nct_id == trial.nct_id
                       isNew == nct_id \notin DOMAIN trials
                       trials1 == IF isNew
                                  THEN [n \in DOMAIN trials \cup {nct_id} |->
                                           IF n = nct_id THEN trial ELSE trials[n]]
                                  ELSE trials
                       sites1 == IF isNew
                                 THEN [n \in DOMAIN trial_sites \cup {nct_id} |->
                                          IF n = nct_id THEN <<>> ELSE trial_sites[n]]
                                 ELSE trial_sites
                       \* "if len(trials) >= max_records: break", inside "if nct_id
                       \* not in trials", before the sites are extracted
                       brk == isNew /\ Cardinality(DOMAIN trials1) >= max_records
                       sites == ExtractSites(study)
                   IN  /\ trials' = trials1
                       /\ nct_order' = IF isNew THEN Append(nct_order, nct_id) ELSE nct_order
                       /\ trial_sites' = IF ~brk /\ sites # <<>>
                                         THEN [sites1 EXCEPT ![nct_id] = @ \o sites]
                                         ELSE sites1
                       /\ idx' = IF brk THEN idx ELSE idx + 1
                       /\ pc' = IF brk \/ last THEN "after_for" ELSE "for"
                       /\ seen_sites' = [seen_sites EXCEPT ![nct_id] = @ \cup ToSet(sites)]
                       /\ first_fields' = IF first_fields[nct_id] = {}
                                          THEN [first_fields EXCEPT ![nct_id] = {trial}]
                                          ELSE first_fields
                       /\ first_sites' = IF first_fields[nct_id] = {}
                                         THEN [first_sites EXCEPT ![nct_id] = ToSet(sites)]
                                         ELSE first_sites
    /\ UNCHANGED <<max_records, start_year, end_year, page_token, data, df, csv, csv_writes>>
    /\ UNCHANGED <<httpVars, call_sent, retried, transients, spins, page_reqs,
                   sent_token, prev_next, page_final>>
    /\ UNCHANGED notFetch

\* After the for loop: the max_records test, then the continuation token.
AfterFor ==
    /\ pc = "after_for"
    /\ IF Cardinality(DOMAIN trials) >= max_records
       THEN pc' = "build" /\ page_token' = page_token
       ELSE /\ page_token' = data.nextPageToken
            /\ pc' = IF ~Truthy(data.nextPageToken) THEN "build" ELSE "request"
    /\ UNCHANGED <<max_records, start_year, end_year, trials, trial_sites, nct_order,
                   data, idx, df, csv, csv_writes>>
    /\ UNCHANGED <<httpVars, histVars, notFetch>>

\* The rows are built in arrival order and the table is written; an empty
\* table is returned at once.
BuildAndWrite ==
    /\ pc = "build"
    /\ LET rows == [i \in DOMAIN nct_order |->
                       BuildRow(trials[nct_order[i]], trial_sites[nct_order[i]])]
       IN  /\ df' = rows
           /\ csv' = rows
           /\ csv_writes' = csv_writes + 1
           /\ pc' = IF rows = <<>> THEN "returned" ELSE "filter"
    /\ UNCHANGED <<max_records, start_year, end_year, trials, trial_sites, nct_order,
                   page_token, data, idx>>
    /\ UNCHANGED <<httpVars, histVars, notFetch>>

\* start_year is derived, the year range applied, the table sorted and
\* deduplicated, and written again to the same path.
FilterAndWrite ==
    /\ pc = "filter"
    /\ \E oneFormat \in BOOLEAN : df' = FilterTable(df, start_year, end_year, oneFormat)
    /\ csv' = df'
    /\ csv_writes' = csv_writes + 1
    /\ pc' = "returned"
    /\ UNCHANGED <<max_records, start_year, end_year, trials, trial_sites, nct_order,
                   page_token, data, idx>>
    /\ UNCHANGED <<httpVars, histVars, notFetch>>

NextFetch ==
    \/ HttpPage
    \/ HttpBadBody
    \/ HttpOther
    \/ CheckPage
    \/ ProcessStudy
    \/ AfterFor
    \/ BuildAndWrite
    \/ FilterAndWrite

\* ======================================================================
\*        processing/endpoints_layer.py, processing/reporting_layer.py
\* ======================================================================
\* A text is a sequence of atoms: a word (letters and digits, case kept), a
\* white-space character, or a single other character.  The operators below
\* treat a word as a unit, so containment is containment of whole atoms.

\* characters of _PUNCT_RE: white space and - / _ , . : ; ( ) { } [ ]
PunctAtoms == {" ", "\n", "-", "/", "_", ",", ".", ":", ";", "(", ")", "{", "}", "[", "]"}

\* atoms that are neither words nor in _PUNCT_RE
OtherAtoms == {"'", "+"}

WhiteSpace == {" ", "\n"}

\* str.lower on the words that have upper-case letters
LowerMap ==
    [Pathologic |-> "pathologic", Complete |-> "complete", Response |-> "response",
     Event |-> "event", Free |-> "free", Survival |-> "survival", Disease |-> "disease",
     Overall |-> "overall", Best |-> "best", Duration |-> "duration",
     Progression |-> "progression", Target |-> "target", Non |-> "non",
     Symptomatic |-> "symptomatic", Deterioration |-> "deterioration",
     Recurrence |-> "recurrence", pCR |-> "pcr", Objective |-> "objective",
     Rate |-> "rate", Time |-> "time", OS |-> "os", PFS |-> "pfs",
     Subgroup |-> "subgroup", Quality |-> "quality", Clinical |-> "clinical",
     Benefit |-> "benefit", Novel |-> "novel", Adjuvant |-> "adjuvant",
     Phase |-> "phase", I |-> "i", HER2 |-> "her2", BRCA |-> "brca", Study |-> "study",
     gBRCA |-> "gbrca", DFS |-> "dfs", EFS |-> "efs", ORR |-> "orr", BOR |-> "bor",
     DOR |-> "dor", TTP |-> "ttp", CBR |-> "cbr"]

Lower(a) == IF a \in DOMAIN LowerMap THEN LowerMap[a] ELSE a

RECURSIVE Strip(_, _)
\* str.strip of the characters in chars
Strip(t, chars) ==
    IF t = <<>> THEN t
    ELSE IF Head(t) \in chars THEN Strip(Tail(t), chars)
    ELSE IF t[Len(t)] \in chars THEN Strip(SubSeq(t, 1, Len(t) - 1), chars)
    ELSE t

RECURSIVE SubRuns(_, _, _)
\* re.sub(r"[class]+", by, t): every maximal run of atoms of class becomes by
SubRuns(t, class, by) ==
    IF t = <<>> THEN <<>>
    ELSE IF Head(t) \in class
    THEN LET rest == SubRuns(Tail(t), class, by)
         IN  IF Len(t) > 1 /\ t[2] \in class THEN rest ELSE <<by>> \o rest
    ELSE <<Head(t)>> \o SubRuns(Tail(t), class, by)

\* t contains k as a contiguous piece (Python "k in t" on strings)
Contains(t, k) ==
    \E i \in 1..(Len(t) - Len(k) + 1) : SubSeq(t, i, i + Len(k) - 1) = k

\* norm_text: lower, strip, punctuation runs to one space, strip
norm_text(t) ==
    LET lowered == Strip([i \in DOMAIN t |-> Lower(t[i])], WhiteSpace)
        spaced == SubRuns(lowered, PunctAtoms, " ")
    IN  Strip(SubRuns(spaced, WhiteSpace, " "), WhiteSpace)

\* canonical_to_col: runs of non-word characters to "_", "_" stripped
canonical_to_col(name) ==
    Strip(SubRuns(name, (PunctAtoms \ {"_"}) \cup OtherAtoms, "_"), {"_"})

\* ------------------------------------------------- CANONICAL_ENDPOINTS
PCR == <<"Pathologic", " ", "Complete", " ", "Response">>
EFS == <<"Event", "-", "Free", " ", "Survival">>
DFS == <<"Disease", "-", "Free", " ", "Survival">>
OS == <<"Overall", " ", "Survival">>
BOR == <<"Best", " ", "Overall", " ", "Response">>
DOR == <<"Duration", " ", "of", " ", "Response">>
PFS == <<"Progression", "-", "Free", " ", "Survival">>
ORESP == <<"Overall", " ", "Response">>
TRESP == <<"Target", " ", "Response">>
NTRESP == <<"Non", "-", "target", " ", "Response">>
SDET == <<"Symptomatic", " ", "Deterioration">>
DREC == <<"Disease", " ", "Recurrence">>
PCR_LONG == <<"Pathologic", " ", "Complete", " ", "Response", " ", "(", "pCR", ")">>
ORR == <<"Objective", " ", "Response", " ", "Rate">>
TTP == <<"Time", " ", "to", " ", "Progression">>

CANONICAL_ENDPOINTS ==
    <<PCR, EFS, DFS, OS, BOR, DOR, PFS, ORESP, TRESP, NTRESP, SDET, DREC, PCR_LONG, ORR, TTP>>

CANONICAL_COLS == [i \in DOMAIN CANONICAL_ENDPOINTS |-> canonical_to_col(CANONICAL_ENDPOINTS[i])]

\* canonical_to_col and norm_text on the canonical names, tabulated
ColOf == [c \in ToSet(CANONICAL_ENDPOINTS) |-> canonical_to_col(c)]

NormOf == [c \in ToSet(CANONICAL_ENDPOINTS) |-> norm_text(c)]

\* a name other than the 15, as the dictionary roll-up produces them
CBR == <<"Clinical", " ", "Benefit", " ", "Rate">>

\* Optional[str] results of the matchers: <<>> is None (and the empty string,
\* which "if cname" treats alike)
NoName == <<>>

\* ----------------------------------------------------------- resources
\* load_synonyms: keys stripped and lower-cased, values stripped, in file
\* order; entries with an empty key are dropped
load_synonyms(entries) ==
    LET norm == [i \in DOMAIN entries |->
                    [k |-> LET key == Strip(entries[i].k, WhiteSpace)
                           IN  [j \in DOMAIN key |-> Lower(key[j])],
                     v |-> Strip(entries[i].v, WhiteSpace)]]
    IN  SelectSeq(norm, LAMBDA e : Strip(e.k, WhiteSpace) # <<>>)

\* "keep = [v for v in vals if v in CANONICAL_ENDPOINTS]"
KeepCanonical(vals) == SelectSeq(vals, LAMBDA v : v \in ToSet(CANONICAL_ENDPOINTS))

\* build_resources_from_files: dict is the endpoint dictionary the pipeline
\* found ([present, readable, names]: names are the stripped endpoint/name
\* values of the file); canonical is overridden when a listed name is canonical
build_resources_from_files(synFile, dict) ==
    LET keep == IF dict.present /\ dict.readable THEN KeepCanonical(dict.names) ELSE <<>>
    IN  [synonyms |-> load_synonyms(synFile),
         canonical |-> IF keep # <<>> THEN keep ELSE CANONICAL_ENDPOINTS]

\* --------------------------------------------------------- rule matching
RECURSIVE FirstSynonym(_, _, _)
\* "for k, cname in synonyms.items(): if k and k in t and cname in canonical"
FirstSynonym(synonyms, t, canonical) ==
    IF synonyms = <<>> THEN NoName
    ELSE LET e == Head(synonyms) IN
         IF e.k # <<>> /\ Contains(t, e.k) /\ e.v \in ToSet(canonical)
         THEN e.v
         ELSE FirstSynonym(Tail(synonyms), t, canonical)

RECURSIVE FirstCanonical(_, _)
\* "for cname in canonical: if norm_text(cname) in t"
FirstCanonical(canonical, t) ==
    IF canonical = <<>> THEN NoName
    ELSE IF Contains(t, NormOf[Head(canonical)]) THEN Head(canonical)
    ELSE FirstCanonical(Tail(canonical), t)

rule_match_canonical(text, synonyms, canonical) ==
    IF text = <<>> THEN NoName
    ELSE LET t == norm_text(text)
             bySyn == FirstSynonym(synonyms, t, canonical)
         IN  IF bySyn # NoName THEN bySyn ELSE FirstCanonical(canonical, t)

\* ------------------------------------------------------------ the client
\* what a call of client.classify_endpoint ends in: a label, None, or an
\* exception
RAISES == <<"raises">>

LLMAnswers(label_set) == {NoName, RAISES} \cup (ToSet(label_set) \cap {OS, PCR_LONG})

\* llm_map_endpoint: None without a client or text, and when the client raises
llm_map_endpoint(text, hasClient, answer) ==
    IF ~hasClient \/ text = <<>> THEN NoName
    ELSE IF answer = RAISES THEN NoName
    ELSE answer

\* ------------------------------------------------------ planned outcomes
\* A cell read from the CSV: NaN, or a string.  json is what json.loads makes
\* of the string when that is a list (of strings), and empty otherwise.
CellNaN == [nan |-> TRUE, text |-> <<>>, json |-> {}]

StrCell(t) == [nan |-> FALSE, text |-> t, json |-> {}]

\* an empty list column as to_csv writes it: "[]"
EmptyListCell == [nan |-> FALSE, text |-> <<"[", "]">>, json |-> {<<>>}]

RECURSIVE ReprItems(_)
ReprItems(items) ==
    IF items = <<>> THEN <<>>
    ELSE <<"'">> \o Head(items) \o <<"'">> \o
         (IF Len(items) > 1 THEN <<",", " ">> ELSE <<>>) \o ReprItems(Tail(items))

\* a list column as to_csv writes it: the Python repr, "['a', 'b']", which
\* json.loads rejects
ReprCell(items) == [nan |-> FALSE, text |-> <<"[">> \o ReprItems(items) \o <<"]">>, json |-> {}]

Bracketed(t) ==
    \/ Head(t) = "[" /\ t[Len(t)] = "]"
    \/ Head(t) = "{" /\ t[Len(t)] = "}"

\* parse_outcome_cell on a CSV cell
parse_outcome_cell(cell) ==
    IF cell.nan THEN <<>>
    ELSE LET t == Strip(cell.text, WhiteSpace) IN
         IF t = <<>> THEN <<>>
         ELSE IF Bracketed(t) /\ cell.json # {} THEN CHOOSE l \in cell.json : TRUE
         ELSE <<t>>

\* separators of re.split(r"[;...\n\r]+") that the inputs use
SplitAtoms == {";", "\n"}

RECURSIVE SplitOn(_, _)
\* re.split on runs of separators, then "p.strip() ... if p.strip()"
SplitOn(t, cur) ==
    LET piece == Strip(cur, WhiteSpace)
        done == IF piece # <<>> THEN <<piece>> ELSE <<>>
    IN  IF t = <<>> THEN done
        ELSE IF Head(t) \in SplitAtoms THEN done \o SplitOn(Tail(t), <<>>)
        ELSE SplitOn(Tail(t), Append(cur, Head(t)))

RECURSIVE PhrasesOf(_)
\* the loop "for chunk in prim + sec" that fills texts
PhrasesOf(chunks) ==
    IF chunks = <<>> THEN <<>>
    ELSE LET chunk == Head(chunks)
             parts == SplitOn(chunk, <<>>)
         IN  IF chunk = <<>> THEN PhrasesOf(Tail(chunks))
             ELSE (IF parts # <<>> THEN parts ELSE <<chunk>>) \o PhrasesOf(Tail(chunks))

RuleMissed_always(byRule) == TRUE

\* "if cname is None:" after rule_match_canonical, in both matching loops
RuleMissed(byRule) == byRule = NoName

RECURSIVE MatchPlanned(_, _, _, _, _, _)
\* the loop "for txt in texts" of annotate_endpoints_for_row; answers[i] is
\* what the client answers if it is asked about texts[i]
MatchPlanned(texts, answers, rsrc, hasClient, matched, calls) ==
    IF texts = <<>> THEN [matched |-> matched, calls |-> calls]
    ELSE LET txt == Head(texts)
             byRule == rule_match_canonical(txt, rsrc.synonyms, rsrc.canonical)
             asked == RuleMissed(byRule) /\ hasClient /\ txt # <<>>
             cname == IF RuleMissed(byRule)
                      THEN llm_map_endpoint(txt, hasClient, Head(answers))
                      ELSE byRule
             matched1 == IF cname # NoName /\ cname \notin ToSet(matched)
                         THEN Append(matched, cname) ELSE matched
         IN  MatchPlanned(Tail(texts), Tail(answers), rsrc, hasClient, matched1,
                          IF asked THEN Append(calls, txt) ELSE calls)

\* the planned phrases of a row
PlannedTexts(rowd) ==
    PhrasesOf(parse_outcome_cell(rowd.planned_primary_outcomes) \o
              parse_outcome_cell(rowd.planned_secondary_outcomes))

\* annotate_endpoints_for_row: one flag per canonical endpoint of the
\* resources, the matched names and their number
annotate_endpoints_for_row(rowd, rsrc, hasClient, answers) ==
    LET m == MatchPlanned(PlannedTexts(rowd), answers, rsrc, hasClient, <<>>, <<>>)
        cols == {ColOf[c] : c \in ToSet(rsrc.canonical)}
    IN  [flags |-> [col \in cols |->
                       IF \E c \in ToSet(m.matched) : ColOf[c] = col THEN 1 ELSE 0],
         detected_endpoint_names |-> m.matched,
         planned_endpoint_count |-> Len(m.matched),
         calls |-> m.calls]

\* ------------------------------------------------------- posted results
\* A results cell of the CSV: kind "nan" (empty cell), "invalid" (a string
\* that is not JSON), "empty" (JSON that is falsy: [] or {}), "dict" (a JSON
\* object), "list" (a JSON list of measure objects, in items) or "scalars" (a
\* JSON list whose items are not objects).
ResultsCell(kind, items) == [kind |-> kind, items |-> items]

\* _json_or_none: whether something was parsed, and whether it is truthy
json_or_none(cell) ==
    [parsed |-> cell.kind \notin {"nan", "invalid"},
     truthy |-> cell.kind \in {"dict", "list", "scalars"}]

\* A measure object: title (NoName when null or missing), paramType and
\* dispersionType (NONE when null), and classes, a list of classes, each a
\* list of categories, each a list of measurements, each the set of its keys
\* (<<>> when the object has no "classes", as in the compact form written by
\* the retrieval client, which keeps the measurements under "groups"), and
\* groups, the "value" of each entry of "groups" (NONE when null).
Measure(title, param, disp, classes) ==
    [title |-> title, paramType |-> param, dispersionType |-> disp, classes |-> classes,
     groups |-> <<>>]

\* _extract_outcome_measures: an entry of the compact form, with one item
\* of "groups" for each measurement of the registry's classes and
\* categories, and no "classes" key
CompactMeasure(title, param, disp, values) ==
    [Measure(title, param, disp, <<>>) EXCEPT !.groups = values]

\* _collect_reported_endpoint_titles: the stripped non-empty titles; raises
\* (m.get on something that is no dict) on a list of scalars
collect_reported_endpoint_titles(cell) ==
    IF cell.kind = "scalars" THEN [raises |-> TRUE, titles |-> <<>>]
    ELSE IF cell.kind # "list" THEN [raises |-> FALSE, titles |-> <<>>]
    ELSE LET stripped == [i \in DOMAIN cell.items |-> Strip(cell.items[i].title, WhiteSpace)]
         IN  [raises |-> FALSE, titles |-> SelectSeq(stripped, LAMBDA t : t # <<>>)]

RECURSIVE map_reported_to_canonical(_, _, _, _, _, _)
\* _map_reported_to_canonical: the client is called directly, so its
\* exception ends the function
map_reported_to_canonical(titles, answers, rsrc, hasClient, mapped, calls) ==
    IF titles = <<>> THEN [raises |-> FALSE, mapped |-> mapped, calls |-> calls]
    ELSE LET t == Head(titles)
             byRule == rule_match_canonical(t, rsrc.synonyms, rsrc.canonical)
             asked == RuleMissed(byRule) /\ hasClient
             cname == IF ~RuleMissed(byRule) THEN byRule
                      ELSE IF hasClient THEN Head(answers) ELSE NoName
             calls1 == IF asked THEN Append(calls, t) ELSE calls
         IN  IF asked /\ cname = RAISES
             THEN [raises |-> TRUE, mapped |-> mapped, calls |-> calls1]
             ELSE map_reported_to_canonical(Tail(titles), Tail(answers), rsrc, hasClient,
                      IF cname # NoName /\ cname \notin ToSet(mapped)
                      THEN Append(mapped, cname) ELSE mapped,
                      calls1)

\* all measurements (key sets) of a measure object
MeasurementsOf(m) ==
    UNION {UNION {ToSet(cat) : cat \in ToSet(cls)} : cls \in ToSet(m.classes)}

\* _has_numbers_analyzed
has_numbers_analyzed(cell) ==
    /\ cell.kind = "list"
    /\ \E i \in DOMAIN cell.items : \E meas \in MeasurementsOf(cell.items[i]) : "value" \in meas

\* _any_ci_limits
any_ci_limits(m) == \E meas \in MeasurementsOf(m) : meas \cap {"lowerLimit", "upperLimit"} # {}

\* _has_estimates_with_precision
has_estimates_with_precision(cell) ==
    /\ cell.kind = "list"
    /\ \E i \in DOMAIN cell.items :
          /\ Truthy(cell.items[i].paramType)
          /\ Truthy(cell.items[i].dispersionType) \/ any_ci_limits(cell.items[i])

\* _ANCILLARY_PATTERNS, case-insensitive, whole words
AncillaryWords == {"subgroup", "exploratory", "adjusted", "interaction", "sensitivity"}

AncillaryMatch(t) ==
    \/ \E i \in DOMAIN t : Lower(t[i]) \in AncillaryWords
    \/ \E i \in 1..(Len(t) - 2) :
          Lower(t[i]) = "post" /\ t[i + 1] \in {"-", " "} /\ Lower(t[i + 2]) = "hoc"

\* _has_ancillary_signals
has_ancillary_signals(titles) == \E i \in DOMAIN titles : AncillaryMatch(titles[i])

\* truth value of row.get(col) for a date cell: false for None and "", true
\* for a date string and for NAN (a float that is not zero)
CellTruthy(cell) == cell # NONE /\ cell # ""

\* int(row.get(col, 0)) for a flag column of the row
RowFlag(flags, col) == IF col \in DOMAIN flags THEN flags[col] ELSE 0

GapFlag_all(planned, rep) == IF \A q \in planned : q \notin rep THEN 1 ELSE 0

\* "1 if any(p not in reported for p in planned) else 0"
GapFlag(planned, rep) == IF \E q \in planned : q \notin rep THEN 1 ELSE 0

ConsortScore_six(f) ==
    f.consort_participant_flow + f.consort_recruitment + f.consort_baseline +
    f.consort_numbers_analyzed + f.consort_outcomes_estimation + f.consort_harms

\* the sum that is stored as consort_results_score
ConsortScore(f) ==
    f.consort_participant_flow + f.consort_recruitment + f.consort_baseline +
    f.consort_numbers_analyzed + f.consort_outcomes_estimation +
    f.consort_ancillary_analyses + f.consort_harms

\* annotate_reporting_for_row on the row with the flags of layer A
annotate_reporting_for_row(rowd, flags, rsrc, hasClient, answers) ==
    LET planned == {c \in ToSet(rsrc.canonical) : RowFlag(flags, ColOf[c]) = 1}
        col == collect_reported_endpoint_titles(rowd.results_outcome_measures)
        map == map_reported_to_canonical(col.titles, answers, rsrc, hasClient, <<>>, <<>>)
        flagsOut ==
            [consort_participant_flow |->
                 IF json_or_none(rowd.results_participant_flow).truthy THEN 1 ELSE 0,
             consort_recruitment |->
                 IF CellTruthy(rowd.start_date) /\
                    (CellTruthy(rowd.primary_completion_date) \/ CellTruthy(rowd.completion_date))
                 THEN 1 ELSE 0,
             consort_baseline |-> IF json_or_none(rowd.results_baseline).truthy THEN 1 ELSE 0,
             consort_numbers_analyzed |->
                 IF has_numbers_analyzed(rowd.results_outcome_measures) THEN 1 ELSE 0,
             consort_outcomes_estimation |->
                 IF has_estimates_with_precision(rowd.results_outcome_measures) THEN 1 ELSE 0,
             consort_ancillary_analyses |-> IF has_ancillary_signals(col.titles) THEN 1 ELSE 0,
             consort_harms |-> IF json_or_none(rowd.results_adverse_events).truthy THEN 1 ELSE 0]
    IN  [raises |-> col.raises \/ map.raises,
         reported |-> map.mapped,
         calls |-> map.calls,
         cols |-> [reporting_gap_flag |-> GapFlag(planned, ToSet(map.mapped)),
                   consort_participant_flow |-> flagsOut.consort_participant_flow,
                   consort_recruitment |-> flagsOut.consort_recruitment,
                   consort_baseline |-> flagsOut.consort_baseline,
                   consort_numbers_analyzed |-> flagsOut.consort_numbers_analyzed,
                   consort_outcomes_estimation |-> flagsOut.consort_outcomes_estimation,
                   consort_ancillary_analyses |-> flagsOut.consort_ancillary_analyses,
                   consort_harms |-> flagsOut.consort_harms,
                   consort_results_score |-> ConsortScore(flagsOut)]]

\* ------------------------------------------------------------ input rows
T_PFS == PFS \o <<" ", "(", "PFS", ")">>
T_QOL == <<"Quality", " ", "of", " ", "life">>
T_PCR == <<"pCR", " ", "rate">>
T_SUB == <<"Subgroup", " ", "analysis", " ", "of", " ", "OS">>

\* endpoint_synonyms.json: no entry, or aliases as the roll-up writes them
SynonymFiles ==
    {<<>>,
     <<[k |-> <<"os">>, v |-> OS], [k |-> <<"pCR">>, v |-> PCR_LONG],
       [k |-> <<"cbr">>, v |-> CBR]>>}

\* endpoint_dictionary.json/.csv: none, one that cannot be read, one naming
\* two canonical endpoints and another name, one naming no canonical endpoint
DictFiles ==
    {[present |-> FALSE, readable |-> FALSE, names |-> <<>>],
     [present |-> TRUE, readable |-> FALSE, names |-> <<>>],
     [present |-> TRUE, readable |-> TRUE, names |-> <<OS, PFS, CBR>>],
     [present |-> TRUE, readable |-> TRUE, names |-> <<CBR>>]}

\* planned_primary_outcomes and planned_secondary_outcomes of a row
PlannedPairs ==
    {<<CellNaN, CellNaN>>,
     <<EmptyListCell, EmptyListCell>>,
     <<ReprCell(<<T_PFS>>), ReprCell(<<OS>>)>>,
     <<ReprCell(<<OS, T_PFS>>), EmptyListCell>>,
     <<ReprCell(<<T_QOL>>), ReprCell(<<T_PCR>>)>>,
     <<StrCell(OS \o <<";", " ">> \o T_QOL), CellNaN>>}

\* a measurement with a value and a confidence limit, under classes
ClassesWithValue == << << <<{"groupId", "value", "lowerLimit"}>> >> >>

\* results_outcome_measures of a row
OutcomeCells ==
    {ResultsCell("nan", <<>>), ResultsCell("invalid", <<>>), ResultsCell("empty", <<>>),
     ResultsCell("dict", <<>>), ResultsCell("scalars", <<>>),
     ResultsCell("list", <<Measure(T_PFS, "MEAN", "SD", <<>>)>>),
     ResultsCell("list", <<Measure(T_PFS, "MEAN", NONE, <<>>), Measure(OS, NONE, NONE, <<>>)>>),
     ResultsCell("list", <<Measure(T_SUB, NONE, NONE, <<>>)>>),
     ResultsCell("list", <<Measure(NoName, "MEAN", "SD", <<>>), Measure(T_QOL, NONE, NONE, <<>>)>>),
     ResultsCell("list", <<Measure(OS, "MEAN", NONE, ClassesWithValue),
                           Measure(T_SUB, NONE, NONE, <<>>)>>),
     ResultsCell("list", <<CompactMeasure(T_QOL, "MEDIAN", NONE, <<NONE, "12.5">>)>>)}

\* the other cells of a row: the kinds of results_participant_flow,
\* results_baseline and results_adverse_events, then start_date,
\* primary_completion_date and completion_date (NAN: empty cell, NONE: the
\* CSV has no such column)
OtherCells ==
    {<<"nan", "nan", "nan", NAN, NAN, NAN>>,
     <<"dict", "list", "list", "2015-03-01", "2017-01", NAN>>,
     <<"dict", "list", "list", NAN, NAN, NAN>>,
     <<"empty", "list", "nan", "2015-03-01", NAN, NAN>>,
     <<"invalid", "nan", "list", NAN, "2017-01", "2018-01">>,
     <<"nan", "nan", "list", NONE, "2017-01", NAN>>}

Rows ==
    {[planned_primary_outcomes |-> pl[1], planned_secondary_outcomes |-> pl[2],
      results_outcome_measures |-> om,
      results_participant_flow |-> ResultsCell(pf, <<>>),
      results_baseline |-> ResultsCell(bl, <<>>),
      results_adverse_events |-> ResultsCell(ae, <<>>),
      start_date |-> sd, primary_completion_date |-> pcd, completion_date |-> cd] :
        pl \in PlannedPairs, om \in OutcomeCells, <<pf, bl, ae, sd, pcd, cd>> \in OtherCells}

\* -------------------------------------------------- the enrichment run
NoFlags == [c \in {} |-> 0]

\* the pipeline is run on a row (start = TRUE) or not part of the run
EnrichInit(start) ==
    /\ epc = IF start THEN "load" ELSE "idle"
    /\ syn_file \in IF start THEN SynonymFiles ELSE {<<>>}
    /\ dict_file \in IF start THEN DictFiles
                    ELSE {[present |-> FALSE, readable |-> FALSE, names |-> <<>>]}
    /\ has_client \in IF start THEN BOOLEAN ELSE {FALSE}
    /\ row \in IF start THEN Rows
              ELSE {CHOOSE r \in Rows : r.planned_primary_outcomes = CellNaN}
    /\ resources = [synonyms |-> <<>>, canonical |-> <<>>]
    /\ ep_cols = [flags |-> NoFlags, detected_endpoint_names |-> <<>>,
                  planned_endpoint_count |-> 0]
    /\ rep_cols = [reporting_gap_flag |-> -1, consort_participant_flow |-> -1,
                   consort_recruitment |-> -1, consort_baseline |-> -1,
                   consort_numbers_analyzed |-> -1, consort_outcomes_estimation |-> -1,
                   consort_ancillary_analyses |-> -1, consort_harms |-> -1,
                   consort_results_score |-> -1]
    /\ reported = <<>>
    /\ llm_calls = <<>>

\* what the client answers to the calls about the items of texts
AnswersFor(texts) ==
    IF has_client THEN [DOMAIN texts -> LLMAnswers(resources.canonical)]
    ELSE {[i \in DOMAIN texts |-> NoName]}

\* run(): the resources are built from the files
BuildResources ==
    /\ epc = "load"
    /\ resources' = build_resources_from_files(syn_file, dict_file)
    /\ epc' = "layerA"
    /\ UNCHANGED <<syn_file, dict_file, has_client, row, ep_cols, rep_cols, reported, llm_calls>>
    /\ UNCHANGED notEnrich

\* run(): layer A, "rowd.update(ep_cols)"
AnnotateEndpoints ==
    /\ epc = "layerA"
    /\ \E answers \in AnswersFor(PlannedTexts(row)) :
          LET res == annotate_endpoints_for_row(row, resources, has_client, answers)
          IN  /\ ep_cols' = [flags |-> res.flags,
                             detected_endpoint_names |-> res.detected_endpoint_names,
                             planned_endpoint_count |-> res.planned_endpoint_count]
              /\ llm_calls' = llm_calls \o res.calls
    /\ epc' = "layerB"
    /\ UNCHANGED <<syn_file, dict_file, has_client, row, resources, rep_cols, reported>>
    /\ UNCHANGED notEnrich

\* run(): layer B, "rowd.update(rep_cols)"; an exception of the layer ends run()
AnnotateReporting ==
    /\ epc = "layerB"
    /\ \E answers \in AnswersFor(
              collect_reported_endpoint_titles(row.results_outcome_measures).titles) :
          LET res == annotate_reporting_for_row(row, ep_cols.flags, resources, has_client, answers)
          IN  /\ llm_calls' = llm_calls \o res.calls
              /\ IF res.raises
                 THEN epc' = "raised" /\ UNCHANGED <<rep_cols, reported>>
                 ELSE epc' = "done" /\ rep_cols' = res.cols /\ reported' = res.reported
    /\ UNCHANGED <<syn_file, dict_file, has_client, row, resources, ep_cols>>
    /\ UNCHANGED notEnrich

NextEnrich ==
    \/ BuildResources
    \/ AnnotateEndpoints
    \/ AnnotateReporting

\* ======================================================================
\*                      processing/classify_layer.py
\* ======================================================================
\* The regular expressions of the layer are of the form \b(alternatives)\b
\* with IGNORECASE.  "_" counts as a word character for \b, so a word atom
\* next to "_" does not stand at a word boundary.
AtBoundary(t, i, j) ==
    /\ (i = 1 \/ t[i - 1] # "_")
    /\ (j = Len(t) \/ t[j + 1] # "_")

\* a whole word of t is one of words
HasWord(t, words) ==
    \E i \in DOMAIN t : Lower(t[i]) \in words /\ AtBoundary(t, i, i)

\* the words a and b with exactly one character of seps in between
HasPair(t, a, b, seps) ==
    \E i \in 1..(Len(t) - 2) :
        /\ Lower(t[i]) = a /\ t[i + 1] \in seps /\ Lower(t[i + 2]) = b
        /\ AtBoundary(t, i, i + 2)

\* the words a, b and c, each two separated by one character of seps
HasTriple(t, a, b, c, seps) ==
    \E i \in 1..(Len(t) - 4) :
        /\ Lower(t[i]) = a /\ t[i + 1] \in seps /\ Lower(t[i + 2]) = b
        /\ t[i + 3] \in seps /\ Lower(t[i + 4]) = c
        /\ AtBoundary(t, i, i + 4)

RECURSIVE SkipSpace(_, _)
\* the first position from i on that holds no white space
SkipSpace(t, i) ==
    IF i <= Len(t) /\ t[i] \in WhiteSpace THEN SkipSpace(t, i + 1) ELSE i

\* a\s+b for a word a and a word b of bs (a\s*b with no space is one word)
HasSpaced(t, a, bs) ==
    \E i \in 1..(Len(t) - 2) :
        /\ Lower(t[i]) = a /\ t[i + 1] \in WhiteSpace
        /\ LET j == SkipSpace(t, i + 1)
           IN  j <= Len(t) /\ Lower(t[j]) \in bs /\ AtBoundary(t, i, j)

\* HER2_RE: her2 | erbb2 | her2\+ | her2-positive | her2\s*pos; the last
\* three begin with the word her2 except "her2pos" written as one word
HER2_RE(t) == HasWord(t, {"her2", "erbb2", "her2pos"})

\* BRCAM_RE: brca1 | brca2 | brcam | gbrca | brca[- ]mutat
BRCAM_RE(t) ==
    \/ HasWord(t, {"brca1", "brca2", "brcam", "gbrca"})
    \/ HasPair(t, "brca", "mutat", {"-", " "})

\* FIRST_IN_HUMAN_RE: first[- ]in[- ]human | fi[hH]
FIRST_IN_HUMAN_RE(t) ==
    \/ HasTriple(t, "first", "in", "human", {"-", " "})
    \/ HasWord(t, {"fih"})

\* NOVEL_AGENT_RE: novel | investigational | new agent | new drug |
\* new medicine | NME
NOVEL_AGENT_RE(t) ==
    \/ HasWord(t, {"novel", "investigational", "nme"})
    \/ \E w \in {"agent", "drug", "medicine"} : HasPair(t, "new", w, {" "})

\* PHASE1_SIGNAL_RE: \bphase\s*1\b | \bphase\s*i\b
PHASE1_SIGNAL_RE(t) ==
    \/ HasWord(t, {"phase1", "phasei"})
    \/ HasSpaced(t, "phase", {"1", "i"})

\* EXTENSION_IND_RE: adjuvant | neoadjuvant | maintenance | new indication |
\* extension | line of therapy | expansion
EXTENSION_IND_RE(t) ==
    \/ HasWord(t, {"adjuvant", "neoadjuvant", "maintenance", "extension", "expansion"})
    \/ HasPair(t, "new", "indication", {" "})
    \/ HasTriple(t, "line", "of", "therapy", {" "})

RECURSIVE JoinParts(_)
\* " | ".join(parts)
JoinParts(parts) ==
    IF parts = <<>> THEN <<>>
    ELSE IF Len(parts) = 1 THEN parts[1]
    ELSE Head(parts) \o <<" ", "|", " ">> \o JoinParts(Tail(parts))

\* _text_pool: the stripped non-empty string cells among title,
\* official_title and the two planned-outcome cells, joined (the texts of
\* the model are shorter than the 2000 characters kept)
text_pool(rowd) ==
    LET cells == <<rowd.title, rowd.official_title,
                   rowd.planned_primary_outcomes, rowd.planned_secondary_outcomes>>
        kept == SelectSeq(cells, LAMBDA c : ~c.nan /\ Strip(c.text, WhiteSpace) # <<>>)
    IN  JoinParts([i \in DOMAIN kept |-> Strip(kept[i].text, WhiteSpace)])

\* the rule-derived values
nm_rule(text) ==
    IF FIRST_IN_HUMAN_RE(text) \/ NOVEL_AGENT_RE(text) \/ PHASE1_SIGNAL_RE(text) THEN 1 ELSE 0

ei_rule(text) == IF EXTENSION_IND_RE(text) THEN 1 ELSE 0

\* "(nm_rule == 0 and ei_rule == 0) or (nm_rule == 1 and ei_rule == 1)"
Ambiguous_always(nm, ei) == TRUE

Ambiguous(nm, ei) == (nm = 0 /\ ei = 0) \/ (nm = 1 /\ ei = 1)

\* What a call of client.classify_nm_ei ends in.  kind is "raises" (an
\* exception), "fallback" (the value OpenAIClient returns when its request or
\* its parsing failed), "answer" (a well-formed answer) or "malformed" (a
\* dict with a field that int() cannot convert, from a client that does not
\* convert itself); nm and ei hold the integer of the field, or nothing when
\* it cannot be converted.
NmEiAnswer(kind, nm, ei, reason) == [kind |-> kind, nm |-> nm, ei |-> ei, reason |-> reason]

NotCalled == NmEiAnswer("none", {}, {}, "")

NmEiAnswers ==
    {NmEiAnswer("raises", {}, {}, ""), NmEiAnswer("fallback", {0}, {0}, "")}
    \cup {NmEiAnswer("answer", {nm}, {ei}, "why") : nm \in {0, 1}, ei \in {0, 1}}
    \cup {NmEiAnswer("answer", {2}, {1}, "")}
    \cup {NmEiAnswer("malformed", {1}, {}, "why"), NmEiAnswer("malformed", {}, {1}, "why")}

\* annotate_classification_for_row; out is what the client does if it is
\* called.  nm is assigned before int() is applied to the EI field, so an
\* exception raised there leaves nm changed.  nm_ei_explanation "" stands for
\* the column being left out.
annotate_classification_for_row(rowd, hasClient, out) ==
    LET text == text_pool(rowd)
        asked == hasClient /\ Ambiguous(nm_rule(text), ei_rule(text))
        nmSet == asked /\ out.kind # "raises" /\ out.nm # {}
        eiSet == nmSet /\ out.ei # {}
    IN  [HER2_flag |-> IF HER2_RE(text) THEN 1 ELSE 0,
         BRCAm_flag |-> IF BRCAM_RE(text) THEN 1 ELSE 0,
         NM_new_medicine |-> IF nmSet THEN (IF out.nm = {1} THEN 1 ELSE 0) ELSE nm_rule(text),
         EI_extension_of_indication |->
             IF eiSet THEN (IF out.ei = {1} THEN 1 ELSE 0) ELSE ei_rule(text),
         nm_ei_explanation |-> IF eiSet THEN out.reason ELSE ""]

\* ------------------------------------------------------- titles and rows
TT_PLAIN == <<"Study", " ", "of", " ", "capecitabine">>
TT_NOVEL == <<"Novel", " ", "agent", " ", "in", " ", "HER2", "+", " ", "disease">>
TT_ADJ == <<"Adjuvant", " ", "capecitabine">>
TT_BOTH == <<"Novel", " ", "adjuvant", " ", "therapy", " ", "for", " ", "BRCA", "-", "mutated", " ", "disease">>
TT_PHASE == <<"Phase", " ", "I", " ", "first", "-", "in", "-", "human", " ", "study">>
TT_LINE == <<"new", " ", "line", " ", "of", " ", "therapy", " ", "in", " ", "gBRCA", " ", "carriers">>

\* rows for the classification layer: the four text cells
ClsRows ==
    {[title |-> ti, official_title |-> ot,
      planned_primary_outcomes |-> pl[1], planned_secondary_outcomes |-> pl[2]] :
        ti \in {StrCell(TT_PLAIN), StrCell(TT_NOVEL), StrCell(TT_ADJ), StrCell(TT_BOTH), CellNaN},
        ot \in {CellNaN, StrCell(TT_PHASE), StrCell(TT_LINE)},
        pl \in {<<CellNaN, CellNaN>>, <<ReprCell(<<OS>>), EmptyListCell>>}}

NoClsCols ==
    [HER2_flag |-> -1, BRCAm_flag |-> -1, NM_new_medicine |-> -1,
     EI_extension_of_indication |-> -1, nm_ei_explanation |-> ""]

\* the layer is called on a row (start = TRUE), or is not part of the run
ClassifyInit(start) ==
    /\ cpc = IF start THEN "call" ELSE "idle"
    /\ cls_row \in IF start THEN ClsRows ELSE {CHOOSE r \in ClsRows : r.title = CellNaN /\ r.official_title = CellNaN /\ r.planned_primary_outcomes = CellNaN}
    /\ cls_client \in IF start THEN BOOLEAN ELSE {FALSE}
    /\ cls_answer = NotCalled
    /\ cls_cols = NoClsCols

\* the call: the client, if it is asked, does one of the things it can do
Classify ==
    /\ cpc = "call"
    /\ LET text == text_pool(cls_row)
           asked == cls_client /\ Ambiguous(nm_rule(text), ei_rule(text))
       IN  \E out \in (IF asked THEN NmEiAnswers ELSE {NotCalled}) :
              /\ cls_answer' = out
              /\ cls_cols' = annotate_classification_for_row(cls_row, cls_client, out)
    /\ cpc' = "returned"
    /\ UNCHANGED <<cls_row, cls_client>>
    /\ UNCHANGED notClassify

NextClassify == Classify

\* ======================================================================
\*                     run() of processing/pipeline.py
\* ======================================================================
\* rows of the input file, each with the cells the three layers read
RunRows ==
    {[planned_primary_outcomes |-> ReprCell(<<T_PFS>>),
      planned_secondary_outcomes |-> ReprCell(<<OS>>),
      results_outcome_measures |-> ResultsCell("list", <<Measure(T_PFS, "MEAN", "SD", <<>>)>>),
      results_participant_flow |-> ResultsCell("dict", <<>>),
      results_baseline |-> ResultsCell("list", <<>>),
      results_adverse_events |-> ResultsCell("list", <<>>),
      start_date |-> "2015-03-01", primary_completion_date |-> "2017-01",
      completion_date |-> NAN,
      title |-> StrCell(TT_NOVEL), official_title |-> CellNaN],
     [planned_primary_outcomes |-> CellNaN,
      planned_secondary_outcomes |-> CellNaN,
      results_outcome_measures |-> ResultsCell("scalars", <<>>),
      results_participant_flow |-> ResultsCell("nan", <<>>),
      results_baseline |-> ResultsCell("nan", <<>>),
      results_adverse_events |-> ResultsCell("nan", <<>>),
      start_date |-> NAN, primary_completion_date |-> NAN, completion_date |-> NAN,
      title |-> StrCell(TT_ADJ), official_title |-> CellNaN],
     [planned_primary_outcomes |-> StrCell(OS \o <<";", " ">> \o T_QOL),
      planned_secondary_outcomes |-> CellNaN,
      results_outcome_measures |-> ResultsCell("list", <<Measure(T_QOL, NONE, NONE, <<>>)>>),
      results_participant_flow |-> ResultsCell("nan", <<>>),
      results_baseline |-> ResultsCell("nan", <<>>),
      results_adverse_events |-> ResultsCell("list", <<>>),
      start_date |-> "2015-03-01", primary_completion_date |-> NAN,
      completion_date |-> NAN,
      title |-> StrCell(TT_PLAIN), official_title |-> CellNaN]}

\* the dictionary files tried in a run: none, and one naming two endpoints
RunDictFiles == {d \in DictFiles : ~d.present \/ Len(d.names) = 3}

NoEpCols == [flags |-> NoFlags, detected_endpoint_names |-> <<>>, planned_endpoint_count |-> 0]

NoRepCols ==
    [reporting_gap_flag |-> -1, consort_participant_flow |-> -1,
     consort_recruitment |-> -1, consort_baseline |-> -1,
     consort_numbers_analyzed |-> -1, consort_outcomes_estimation |-> -1,
     consort_ancillary_analyses |-> -1, consort_harms |-> -1,
     consort_results_score |-> -1]

\* "rowd = row.to_dict()": the row at position idx, no layer applied yet
FreshRow(pos, r) ==
    [idx |-> pos, src |-> r, ep_cols |-> NoEpCols, rep_cols |-> NoRepCols,
     reported |-> <<>>, cls_cols |-> NoClsCols, layers |-> <<>>]

NoFiles == [csv |-> {}, parquet |-> {}, jsonl |-> {}]

\* run() is called (start = TRUE), or is not part of the behaviour
RunInit(start) ==
    /\ rpc = IF start THEN "read" ELSE "idle"
    /\ raw_csv \in IF start THEN {"missing", "blank", "header", "rows"} ELSE {"missing"}
    /\ run_syn \in IF start THEN SynonymFiles ELSE {<<>>}
    /\ run_dict \in IF start THEN RunDictFiles ELSE {d \in DictFiles : ~d.present}
    /\ run_client \in IF start THEN BOOLEAN ELSE {FALSE}
    /\ run_resources = [synonyms |-> <<>>, canonical |-> <<>>]
    /\ row_dict = FreshRow(0, CHOOSE r \in RunRows : r.title = StrCell(TT_ADJ))
    /\ rows_out = <<>>
    /\ ckpt = NoFiles
    /\ ckpt_at = <<>>
    /\ out_files = NoFiles
    /\ run_error = NONE

\* save_csv_parquet_dual and save_jsonl of the rows
AllFiles(rows) == [csv |-> {rows}, parquet |-> {rows}, jsonl |-> {rows}]

\* save_checkpoint_dual of the rows
CheckpointFiles(rows) == [csv |-> {rows}, parquet |-> {rows}, jsonl |-> {}]

\* read_csv_safely and "if df.empty": a missing file gives an empty frame,
\* a file with a header and no rows an empty frame with columns, and a file
\* without header (what the retrieval writes when it fetched no trial: the
\* CSV of a frame with no columns is one empty line) makes read_csv raise
\* EmptyDataError.  An empty frame is saved in the three formats at once.
ReadInput ==
    /\ rpc = "read"
    /\ IF raw_csv = "blank"
       THEN /\ rpc' = "raised"
            /\ run_error' = "read_csv_safely"
            /\ UNCHANGED out_files
       ELSE IF raw_csv \in {"missing", "header"}
       THEN /\ rpc' = "returned"
            /\ out_files' = AllFiles(<<>>)
            /\ UNCHANGED run_error
       ELSE /\ rpc' = "resources"
            /\ UNCHANGED <<out_files, run_error>>
    /\ UNCHANGED <<raw_csv, run_syn, run_dict, run_client, run_resources, row_dict, rows_out,
                   ckpt, ckpt_at>>
    /\ UNCHANGED notRun

\* the resources are built and the client is initialised
LoadResources ==
    /\ rpc = "resources"
    /\ run_resources' = build_resources_from_files(run_syn, run_dict)
    /\ rpc' = "loop"
    /\ UNCHANGED <<raw_csv, run_syn, run_dict, run_client, row_dict, rows_out, ckpt, ckpt_at,
                   out_files, run_error>>
    /\ UNCHANGED notRun

\* "for i, row in df.iterrows()": the next row of the frame, if there is one
\* (a frame that is not empty has a first row)
NextRow ==
    /\ rpc = "loop"
    /\ \/ /\ Len(rows_out) < MaxRows
          /\ \E r \in RunRows : row_dict' = FreshRow(Len(rows_out) + 1, r)
          /\ rpc' = "layerA"
       \/ /\ Len(rows_out) >= 1
          /\ rpc' = "final"
          /\ UNCHANGED row_dict
    /\ UNCHANGED <<raw_csv, run_syn, run_dict, run_client, run_resources, rows_out, ckpt,
                   ckpt_at, out_files, run_error>>
    /\ UNCHANGED notRun

\* what the client answers to classify_endpoint about the items of texts
AnswersOf(texts, hasClient, rsrc) ==
    IF hasClient THEN [DOMAIN texts -> LLMAnswers(rsrc.canonical)]
    ELSE {[i \in DOMAIN texts |-> NoName]}

\* layer A and "rowd.update(ep_cols)"
LayerA ==
    /\ rpc = "layerA"
    /\ \E answers \in AnswersOf(PlannedTexts(row_dict.src), run_client, run_resources) :
          LET res == annotate_endpoints_for_row(row_dict.src, run_resources, run_client, answers)
          IN  row_dict' = [row_dict EXCEPT
                  !.ep_cols = [flags |-> res.flags,
                               detected_endpoint_names |-> res.detected_endpoint_names,
                               planned_endpoint_count |-> res.planned_endpoint_count],
                  !.layers = Append(@, "A")]
    /\ rpc' = "layerB"
    /\ UNCHANGED <<raw_csv, run_syn, run_dict, run_client, run_resources, rows_out, ckpt,
                   ckpt_at, out_files, run_error>>
    /\ UNCHANGED notRun

FlagsOnRow_input(r) == NoFlags

\* the endpoint flag columns layer B finds on rowd
FlagsOnRow(r) == r.ep_cols.flags

\* layer B and "rowd.update(rep_cols)"; an exception of the layer is not
\* caught by run()
LayerB ==
    /\ rpc = "layerB"
    /\ \E answers \in AnswersOf(
              collect_reported_endpoint_titles(row_dict.src.results_outcome_measures).titles,
              run_client, run_resources) :
          LET res == annotate_reporting_for_row(row_dict.src, FlagsOnRow(row_dict), run_resources,
                                                run_client, answers)
          IN  IF res.raises
              THEN /\ rpc' = "raised"
                   /\ run_error' = "annotate_reporting_for_row"
                   /\ UNCHANGED row_dict
              ELSE /\ rpc' = "layerC"
                   /\ row_dict' = [row_dict EXCEPT !.rep_cols = res.cols, !.reported = res.reported,
                                           !.layers = Append(@, "B")]
                   /\ UNCHANGED run_error
    /\ UNCHANGED <<raw_csv, run_syn, run_dict, run_client, run_resources, rows_out, ckpt,
                   ckpt_at, out_files>>
    /\ UNCHANGED notRun

\* layer C and "rowd.update(cls_cols)"
LayerC ==
    /\ rpc = "layerC"
    /\ LET text == text_pool(row_dict.src)
           asked == run_client /\ Ambiguous(nm_rule(text), ei_rule(text))
       IN  \E out \in (IF asked THEN NmEiAnswers ELSE {NotCalled}) :
              row_dict' = [row_dict EXCEPT
                  !.cls_cols = annotate_classification_for_row(row_dict.src, run_client, out),
                  !.layers = Append(@, "C")]
    /\ rpc' = "append"
    /\ UNCHANGED <<raw_csv, run_syn, run_dict, run_client, run_resources, rows_out, ckpt,
                   ckpt_at, out_files, run_error>>
    /\ UNCHANGED notRun

CheckpointDue_index(i) == i % ROW_FLUSH_EVERY = 0

\* "if (i + 1) % ROW_FLUSH_EVERY == 0", i the index label of the row (the
\* frame read from the file has the labels 0, 1, 2, ...)
CheckpointDue(i) == (i + 1) % ROW_FLUSH_EVERY = 0

\* "rows_out.append(rowd)" and the periodic checkpoint
AppendRow ==
    /\ rpc = "append"
    /\ rows_out' = Append(rows_out, row_dict.idx)
    /\ IF CheckpointDue(row_dict.idx - 1)
       THEN /\ ckpt' = CheckpointFiles(rows_out')
            /\ ckpt_at' = Append(ckpt_at, Len(rows_out'))
       ELSE UNCHANGED <<ckpt, ckpt_at>>
    /\ rpc' = "loop"
    /\ UNCHANGED <<raw_csv, run_syn, run_dict, run_client, run_resources, row_dict, out_files,
                   run_error>>
    /\ UNCHANGED notRun

\* the final save (csv, parquet, jsonl) of all rows
FinalSave ==
    /\ rpc = "final"
    /\ out_files' = AllFiles(rows_out)
    /\ rpc' = "returned"
    /\ UNCHANGED <<raw_csv, run_syn, run_dict, run_client, run_resources, row_dict, rows_out,
                   ckpt, ckpt_at, run_error>>
    /\ UNCHANGED notRun

NextRun ==
    \/ ReadInput
    \/ LoadResources
    \/ NextRow
    \/ LayerA
    \/ LayerB
    \/ LayerC
    \/ AppendRow
    \/ FinalSave

\* ======================================================================
\*              analytics: dates as pandas parses and compares them
\* ======================================================================

\* A date cell of the dataset is <<>> (null), <<y, m>> ("2023-12") or
\* <<y, m, d>> ("2023-12-31"); a Timestamp is a set holding the number of its
\* day (days since 1999-12-31), NaT the empty set.
NaT == {}

IsLeap(y) == (y % 4 = 0 /\ y % 100 # 0) \/ y % 400 = 0

DaysBeforeYear(y) == (y - 2000) * 365 + Cardinality({k \in 2000..(y - 1) : IsLeap(k)})

DaysBeforeMonth(y, m) ==
    <<0, 31, 59, 90, 120, 151, 181, 212, 243, 273, 304, 334>>[m]
        + (IF m > 2 /\ IsLeap(y) THEN 1 ELSE 0)

\* the day number of a calendar date
Ordinal(y, m, d) == DaysBeforeYear(y) + DaysBeforeMonth(y, m) + d

\* the format of a date string: 0 for null, 2 for "%Y-%m", 3 for "%Y-%m-%d"
CellFormat(cell) == Len(cell)

\* the format of the first non-null cell of a column, 0 if there is none
RECURSIVE FirstCellFormat(_)
FirstCellFormat(col) ==
    IF col = <<>> THEN 0
    ELSE IF CellFormat(Head(col)) # 0 THEN CellFormat(Head(col))
    ELSE FirstCellFormat(Tail(col))

\* pd.to_datetime(cell, errors="coerce") of one string: a month-only date is
\* the first day of the month
ParseCell(cell) ==
    IF cell = <<>> THEN NaT
    ELSE {Ordinal(cell[1], cell[2], IF Len(cell) = 3 THEN cell[3] ELSE 1)}

\* pd.to_datetime(column, errors="coerce"): each string parsed on its own
\* (pandas 1), or all with the format of the first non-null string and the
\* others coerced to NaT (pandas 2); the repository pins no version
to_datetime(col, oneFormat) ==
    [i \in DOMAIN col |->
        IF oneFormat /\ CellFormat(col[i]) # FirstCellFormat(col) THEN NaT
        ELSE ParseCell(col[i])]

\* ======================================================================
\*                        analytics/01_momentum.py
\* ======================================================================

\* POLICY: results due 12 months after Primary Completion Date (PCD)
ELIGIBILITY_LAG_DAYS == 365

Eligible_strict(pcd, today) ==
    pcd # NaT /\ \A p \in pcd : p < today - ELIGIBILITY_LAG_DAYS

\* eligible = pcd.notna() & (pcd <= (today - Timedelta(days=365))); the same
\* test is eligible_mask of 02_endpoints_matrix.py
Eligible(pcd, today) ==
    pcd # NaT /\ \A p \in pcd : p <= today - ELIGIBILITY_LAG_DAYS

\* reported_on_time = eligible & reported & res_posted.notna()
\*                    & (res_posted <= due_date), due_date = pcd + 365 days
ReportedOnTime(elig, rep, pcd, res_posted) ==
    /\ elig
    /\ rep
    /\ res_posted # NaT
    /\ \A p \in pcd : \A q \in res_posted : q <= p + ELIGIBILITY_LAG_DAYS

ReportedLateOrUnknown_all(elig, rep, onTime) == elig /\ rep

\* reported_late_or_unknown = eligible & reported & (~reported_on_time)
ReportedLateOrUnknown(elig, rep, onTime) == elig /\ rep /\ ~onTime

\* overdue = eligible & (~reported)
Overdue(elig, rep) == elig /\ ~rep

\* the "today" of a run of the report
Todays == {Ordinal(2025, 1, 1), Ordinal(2025, 1, 2)}

PcdCells == {<<>>, <<2023, 12>>, <<2023, 12, 31>>, <<2024, 1, 2>>, <<2024, 1, 3>>}

\* cells of the column the posted date is read from (results_first_posted_date
\* if the dataset has it, else last_update_date)
PostedCells == {<<>>, <<2024, 12, 30>>, <<2024, 12, 31>>}

\* rows of the enhanced dataset, as far as the report reads them
MomentumRows ==
    {[start_year |-> {2021}, has_results |-> h, primary_completion_date |-> p,
      posted_date |-> q] : h \in BOOLEAN, p \in PcdCells, q \in PostedCells}
    \cup {[start_year |-> {}, has_results |-> TRUE,
           primary_completion_date |-> <<2023, 12, 31>>, posted_date |-> <<2024, 12, 30>>]}

\* main() is called (start = TRUE), or is not part of the behaviour
MomentumInit(start) ==
    /\ mpc = IF start THEN "load" ELSE "idle"
    /\ m_today \in IF start THEN Todays ELSE {Ordinal(2025, 1, 1)}
    /\ m_one_format \in IF start THEN BOOLEAN ELSE {FALSE}
    /\ m_table = <<>>
    /\ m_masks = <<>>
    /\ g_out = {}

\* load_enhanced: one more row of the dataset
MomentumLoadRow ==
    /\ mpc = "load"
    /\ Len(m_table) < MaxTrials
    /\ \E r \in MomentumRows : m_table' = Append(m_table, r)
    /\ UNCHANGED <<mpc, m_today, m_one_format, m_masks, g_out>>
    /\ UNCHANGED notMomentum

\* the policy logic per record
ComputeMasks ==
    /\ mpc = "load"
    /\ LET pcd == to_datetime([i \in DOMAIN m_table |-> m_table[i].primary_completion_date],
                              m_one_format)
           res_posted == to_datetime([i \in DOMAIN m_table |-> m_table[i].posted_date],
                                     m_one_format)
           mask(i) ==
               LET elig == Eligible(pcd[i], m_today)
                   rep == m_table[i].has_results
                   onTime == ReportedOnTime(elig, rep, pcd[i], res_posted[i])
               IN  [eligible |-> elig,
                    reported |-> rep,
                    reported_on_time |-> onTime,
                    reported_late_or_unknown |-> ReportedLateOrUnknown(elig, rep, onTime),
                    overdue |-> Overdue(elig, rep),
                    pcd |-> pcd[i],
                    res_posted |-> res_posted[i]]
       IN  m_masks' = [i \in DOMAIN m_table |-> mask(i)]
    /\ mpc' = "masks"
    /\ UNCHANGED <<m_today, m_one_format, m_table, g_out>>
    /\ UNCHANGED notMomentum

\* the per-year aggregates: rows without start_year dropped, reported_eligible
\* restricted to the eligible rows, then the sums of each start year
Aggregate ==
    /\ mpc = "masks"
    /\ LET kept == {i \in DOMAIN m_table : m_table[i].start_year # {}}
           years == UNION {m_table[i].start_year : i \in kept}
           of(y) == {i \in kept : m_table[i].start_year = {y}}
           count(y, col) == Cardinality({i \in of(y) : m_masks[i][col]})
       IN  g_out' = {[start_year |-> y,
                      n_total |-> Cardinality(of(y)),
                      eligible |-> count(y, "eligible"),
                      overdue |-> count(y, "overdue"),
                      reported_eligible |->
                          Cardinality({i \in of(y) : m_masks[i].reported /\ m_masks[i].eligible}),
                      reported_on_time |-> count(y, "reported_on_time"),
                      reported_late_or_unknown |-> count(y, "reported_late_or_unknown")]
                     : y \in years}
    /\ mpc' = "done"
    /\ UNCHANGED <<m_today, m_one_format, m_table, m_masks>>
    /\ UNCHANGED notMomentum

NextMomentum ==
    \/ MomentumLoadRow
    \/ ComputeMasks
    \/ Aggregate

\* ======================================================================
\*                   analytics/07_priority_shortlists.py
\* ======================================================================

\* add_derived, _to_year: the year of the completion date, each cell parsed
\* on its own; a set holding the year, empty (NaN) without a date
completion_year(cell) == IF ParseCell(cell) = NaT THEN {} ELSE {cell[1]}

\* add_derived: pd.Timestamp.now().year - completion_year, NaN without one
years_since_completion(cell, nowYear) == {nowYear - y : y \in completion_year(cell)}

\* completed["years_since_completion"] >= 3: false for NaN
AtLeastYears(ysc, n) == \E v \in ysc : v >= n

\* df["overall_status"].isin(["COMPLETED", "TERMINATED"])
IsCompleted(r) == r.overall_status \in {"COMPLETED", "TERMINATED"}

\* old = completed[completed["years_since_completion"] >= 3]
IsOld(r, nowYear) ==
    IsCompleted(r) /\ AtLeastYears(years_since_completion(r.completion_date, nowYear), 3)

\* the columns named in key_eps, and the three of the BRCAm list
KeyEps ==
    {<<"Objective", "_", "Response", "_", "Rate">>,
     <<"Progression", "_", "Free", "_", "Survival">>,
     <<"Overall", "_", "Survival">>,
     <<"Pathologic", "_", "Complete", "_", "Response", "_", "pCR">>}

EfficacyEps ==
    {<<"Progression", "_", "Free", "_", "Survival">>,
     <<"Overall", "_", "Survival">>,
     <<"Objective", "_", "Response", "_", "Rate">>}

\* frame[cols].any(axis=1): one of the columns is set on the row
AnyOf(r, cols) == r.planned \cap cols # {}

\* 1) completed >= 3y, reporting gap, key endpoints planned: a filter of old
InList1(r, nowYear) == IsOld(r, nowYear) /\ r.reporting_gap_flag = 1 /\ AnyOf(r, KeyEps)

\* 2) HER2, pCR planned, gap: a filter of completed
InList2(r, nowYear) ==
    /\ IsCompleted(r)
    /\ r.HER2_flag = 1
    /\ <<"Pathologic", "_", "Complete", "_", "Response", "_", "pCR">> \in r.planned
    /\ r.reporting_gap_flag = 1

\* 3) BRCAm, efficacy endpoints missing: a filter of completed
InList3(r, nowYear) ==
    IsCompleted(r) /\ r.BRCAm_flag = 1 /\ AnyOf(r, EfficacyEps) /\ r.reporting_gap_flag = 1

\* 4) NM risk list: a filter of completed
InList4(r, nowYear) == IsCompleted(r) /\ r.NM_new_medicine = 1 /\ r.reporting_gap_flag = 1

\* the rows of a frame that pass a filter, in the order of the frame
RECURSIVE SelectRows(_, _)
SelectRows(rows, keep) ==
    IF rows = <<>> THEN <<>>
    ELSE IF keep[Head(rows)] THEN <<Head(rows)>> \o SelectRows(Tail(rows), keep)
    ELSE SelectRows(Tail(rows), keep)

\* the calendar year of a run of the report
NowYears == {2025, 2026}

\* flags of a row of the enhanced dataset: the gap flag, the markers and the
\* endpoint columns that are 1
ShortlistProfiles ==
    {[reporting_gap_flag |-> 0, HER2_flag |-> 0, BRCAm_flag |-> 0, NM_new_medicine |-> 0,
      planned |-> {}],
     [reporting_gap_flag |-> 1, HER2_flag |-> 1, BRCAm_flag |-> 0, NM_new_medicine |-> 0,
      planned |-> {canonical_to_col(PCR_LONG)}],
     [reporting_gap_flag |-> 1, HER2_flag |-> 0, BRCAm_flag |-> 1, NM_new_medicine |-> 0,
      planned |-> {canonical_to_col(OS)}],
     [reporting_gap_flag |-> 1, HER2_flag |-> 0, BRCAm_flag |-> 0, NM_new_medicine |-> 1,
      planned |-> {}],
     [reporting_gap_flag |-> 0, HER2_flag |-> 1, BRCAm_flag |-> 0, NM_new_medicine |-> 0,
      planned |-> {canonical_to_col(PCR_LONG)}],
     [reporting_gap_flag |-> 1, HER2_flag |-> 0, BRCAm_flag |-> 0, NM_new_medicine |-> 0,
      planned |-> {canonical_to_col(PFS)}]}

ShortlistRows ==
    {[overall_status |-> s, completion_date |-> d, reporting_gap_flag |-> p.reporting_gap_flag,
      HER2_flag |-> p.HER2_flag, BRCAm_flag |-> p.BRCAm_flag,
      NM_new_medicine |-> p.NM_new_medicine, planned |-> p.planned]
        : s \in {"COMPLETED", "TERMINATED", "RECRUITING"},
          d \in {<<>>, <<2022, 5>>, <<2024, 6, 30>>},
          p \in ShortlistProfiles}

NoShortlists == [sl1 |-> <<>>, sl2 |-> <<>>, sl3 |-> <<>>, sl4 |-> <<>>]

\* main() is called (start = TRUE), or is not part of the behaviour
ShortlistInit(start) ==
    /\ spc = IF start THEN "load" ELSE "idle"
    /\ s_year \in IF start THEN NowYears ELSE {2025}
    /\ s_table = <<>>
    /\ shortlists = NoShortlists

\* load_enhanced: one more row of the dataset
ShortlistLoadRow ==
    /\ spc = "load"
    /\ Len(s_table) < MaxListed
    /\ \E r \in ShortlistRows : s_table' = Append(s_table, r)
    /\ UNCHANGED <<spc, s_year, shortlists>>
    /\ UNCHANGED notShortlist

\* the four filters, each written to its CSV
WriteShortlists ==
    /\ spc = "load"
    /\ shortlists' =
          [sl1 |-> SelectRows(s_table, [r \in ToSet(s_table) |-> InList1(r, s_year)]),
           sl2 |-> SelectRows(s_table, [r \in ToSet(s_table) |-> InList2(r, s_year)]),
           sl3 |-> SelectRows(s_table, [r \in ToSet(s_table) |-> InList3(r, s_year)]),
           sl4 |-> SelectRows(s_table, [r \in ToSet(s_table) |-> InList4(r, s_year)])]
    /\ spc' = "written"
    /\ UNCHANGED <<s_year, s_table>>
    /\ UNCHANGED notShortlist

NextShortlist ==
    \/ ShortlistLoadRow
    \/ WriteShortlists

\* ======================================================================
\*                       utils/helpers.py: retry
\* ======================================================================

\* How a call of the wrapper ends: kind "return" with what = "value" (the
\* value the wrapped function returned at its call number `at`) or "None"
\* (the wrapper ran off its end), or kind "raise" with what = "listed" (an
\* exception of the configured set) or "other", raised by call number `at`.
RetryResult(kind, what, at) == [kind |-> kind, what |-> what, at |-> at]

NoResult == RetryResult("none", "", 0)

LastAttempt_never(i, attempts) == FALSE

\* "if i >= attempts: raise"
LastAttempt(i, attempts) == i >= attempts

\* "wait *= backoff"
NextWait(wait, backoff) == wait * backoff

\* the wrapper is called (start = TRUE), or is not part of the behaviour
RetryInit(start) ==
    /\ tpc = IF start THEN "loop" ELSE "idle"
    /\ t_attempts \in IF start THEN (-1)..MaxAttempts ELSE {1}
    /\ t_delay \in IF start THEN {1, 2, 3} ELSE {1}
    /\ t_backoff \in IF start THEN {2, 3} ELSE {2}
    /\ t_i = 1
    /\ t_wait = t_delay
    /\ t_last_exc = 0
    /\ t_calls = 0
    /\ t_sleeps = <<>>
    /\ t_result = NoResult

\* an iteration of "for i in range(1, attempts + 1)" in which fn returns
CallReturns ==
    /\ tpc = "loop"
    /\ t_i <= t_attempts
    /\ t_calls' = t_calls + 1
    /\ t_result' = RetryResult("return", "value", t_calls + 1)
    /\ tpc' = "returned"
    /\ UNCHANGED <<t_attempts, t_delay, t_backoff, t_i, t_wait, t_last_exc, t_sleeps>>
    /\ UNCHANGED notRetry

\* an iteration in which fn raises an exception of the configured set: it
\* is re-raised on the last attempt, else the wrapper sleeps and goes on
CallRaisesListed ==
    /\ tpc = "loop"
    /\ t_i <= t_attempts
    /\ t_calls' = t_calls + 1
    /\ t_last_exc' = t_calls + 1
    /\ IF LastAttempt(t_i, t_attempts)
       THEN /\ t_result' = RetryResult("raise", "listed", t_calls + 1)
            /\ tpc' = "raised"
            /\ UNCHANGED <<t_i, t_wait, t_sleeps>>
       ELSE /\ t_sleeps' = Append(t_sleeps, t_wait)
            /\ t_wait' = NextWait(t_wait, t_backoff)
            /\ t_i' = t_i + 1
            /\ UNCHANGED <<tpc, t_result>>
    /\ UNCHANGED <<t_attempts, t_delay, t_backoff>>
    /\ UNCHANGED notRetry

\* an iteration in which fn raises an exception outside the configured set
CallRaisesOther ==
    /\ tpc = "loop"
    /\ t_i <= t_attempts
    /\ t_calls' = t_calls + 1
    /\ t_result' = RetryResult("raise", "other", t_calls + 1)
    /\ tpc' = "raised"
    /\ UNCHANGED <<t_attempts, t_delay, t_backoff, t_i, t_wait, t_last_exc, t_sleeps>>
    /\ UNCHANGED notRetry

\* the range is exhausted: "if last_exc: raise last_exc", else the wrapper
\* ends without a return statement
LoopEnds ==
    /\ tpc = "loop"
    /\ t_i > t_attempts
    /\ IF t_last_exc # 0
       THEN /\ t_result' = RetryResult("raise", "listed", t_last_exc)
            /\ tpc' = "raised"
       ELSE /\ t_result' = RetryResult("return", "None", 0)
            /\ tpc' = "returned"
    /\ UNCHANGED <<t_attempts, t_delay, t_backoff, t_i, t_wait, t_last_exc, t_calls, t_sleeps>>
    /\ UNCHANGED notRetry

NextRetry ==
    \/ CallReturns
    \/ CallRaisesListed
    \/ CallRaisesOther
    \/ LoopEnds

\* ---------------------------------------------- llm/openai_client.py
\* the keyword parameters of OpenAIClient.__init__
InitParams == {}

\* the methods of OpenAIClient
ClientMethods == {"classify_endpoint", "classify_nm_ei"}

\* OpenAIClient(**kwargs): binding the arguments comes first, then the body
\* looks for the key
NewClient(kwargs, key) ==
    IF ~(kwargs \subseteq InitParams) THEN "TypeError"
    ELSE IF ~key THEN "RuntimeError"
    ELSE "ok"

\* ======================================================================
\*          taug_extraction/rollup_dictionary.py: the roll-up
\* ======================================================================
\* Names are texts in the sense above: sequences of atoms.

CANONICAL_NAMES ==
    << << <<"overall", " ", "survival">>, <<"Overall", " ", "Survival">> >>,
       << <<"progression", "-", "free", " ", "survival">>,
          <<"Progression", "-", "Free", " ", "Survival">> >>,
       << <<"disease", "-", "free", " ", "survival">>,
          <<"Disease", "-", "Free", " ", "Survival">> >>,
       << <<"event", "-", "free", " ", "survival">>,
          <<"Event", "-", "Free", " ", "Survival">> >>,
       << <<"objective", " ", "response", " ", "rate">>,
          <<"Objective", " ", "Response", " ", "Rate">> >>,
       << <<"overall", " ", "response", " ", "rate">>,
          <<"Objective", " ", "Response", " ", "Rate">> >>,
       << <<"best", " ", "overall", " ", "response">>,
          <<"Best", " ", "Overall", " ", "Response">> >>,
       << <<"duration", " ", "of", " ", "response">>,
          <<"Duration", " ", "of", " ", "Response">> >>,
       << <<"time", " ", "to", " ", "progression">>,
          <<"Time", " ", "to", " ", "Progression">> >>,
       << <<"pathologic", " ", "complete", " ", "response">>,
          <<"Pathologic", " ", "Complete", " ", "Response">> >>,
       << <<"pcr">>, <<"Pathologic", " ", "Complete", " ", "Response">> >>,
       << <<"clinical", " ", "benefit", " ", "rate">>,
          <<"Clinical", " ", "Benefit", " ", "Rate">> >> >>

ALIAS_SEEDS ==
    << << <<"Overall", " ", "Survival">>,
          << <<"OS">>, <<"overall", " ", "survival">> >> >>,
       << <<"Progression", "-", "Free", " ", "Survival">>,
          << <<"PFS">>, <<"progression", "-", "free", " ", "survival">> >> >>,
       << <<"Disease", "-", "Free", " ", "Survival">>,
          << <<"DFS">>, <<"disease", "-", "free", " ", "survival">> >> >>,
       << <<"Event", "-", "Free", " ", "Survival">>,
          << <<"EFS">>, <<"event", "-", "free", " ", "survival">> >> >>,
       << <<"Objective", " ", "Response", " ", "Rate">>,
          << <<"ORR">>, <<"objective", " ", "response", " ", "rate">>,
             <<"overall", " ", "response", " ", "rate">> >> >>,
       << <<"Best", " ", "Overall", " ", "Response">>,
          << <<"BOR">>, <<"best", " ", "overall", " ", "response">> >> >>,
       << <<"Duration", " ", "of", " ", "Response">>,
          << <<"DOR">>, <<"duration", " ", "of", " ", "response">> >> >>,
       << <<"Time", " ", "to", " ", "Progression">>,
          << <<"TTP">>, <<"time", " ", "to", " ", "progression">> >> >>,
       << <<"Pathologic", " ", "Complete", " ", "Response">>,
          << <<"pCR">>, <<"pathological", " ", "complete", " ", "response">>,
             <<"pathologic", " ", "complete", " ", "response">> >> >>,
       << <<"Clinical", " ", "Benefit", " ", "Rate">>,
          << <<"CBR">>, <<"clinical", " ", "benefit", " ", "rate">> >> >> >>

\* dict.get(key, default) on a dictionary written as a list of pairs
DictGet(d, key, default) ==
    IF \E i \in DOMAIN d : d[i][1] = key
    THEN d[CHOOSE i \in DOMAIN d : d[i][1] = key][2]
    ELSE default

\* str.lower of a text
LowerText(t) == [i \in DOMAIN t |-> Lower(t[i])]

\* normalize_ws: strip, runs of white space to one space
normalize_ws(t) == SubRuns(Strip(t, WhiteSpace), WhiteSpace, " ")

\* _norm: normalize_ws, lower, runs of characters outside [a-z0-9+ ] to one
\* space, runs of white space to one space, strip
norm(t) ==
    LET lowered == LowerText(normalize_ws(t))
        spaced == SubRuns(lowered, (PunctAtoms \cup OtherAtoms) \ {" ", "+"}, " ")
    IN  Strip(SubRuns(spaced, WhiteSpace, " "), WhiteSpace)

\* _canonicalise_name: CANONICAL_NAMES.get(_norm(name), name.strip()) or name
canonicalise_name(name) ==
    LET v == DictGet(CANONICAL_NAMES, norm(name), Strip(name, WhiteSpace))
    IN  IF v # <<>> THEN v ELSE name

RECURSIVE FromKeys(_)
\* list(dict.fromkeys(s)): the first occurrence of each value, in order
FromKeys(s) ==
    IF s = <<>> THEN <<>>
    ELSE <<Head(s)>> \o FromKeys(SelectSeq(Tail(s), LAMBDA x : x # Head(s)))

RECURSIVE UnionLists(_, _)
\* the loop of _union_lists over the values of its lists put end to end
UnionLists(vs, seen) ==
    IF vs = <<>> THEN <<>>
    ELSE LET v_norm == norm(Head(vs))
         IN  IF v_norm # <<>> /\ v_norm \notin seen
             THEN <<Strip(Head(vs), WhiteSpace)>> \o
                  UnionLists(Tail(vs), seen \cup {v_norm})
             ELSE UnionLists(Tail(vs), seen)

\* _union_lists(a, b)
union_lists(a, b) == UnionLists(a \o b, {})

\* a candidate of a page file, and a row of the flattened frame
Candidate(name, syns) == [endpoint_name |-> name, synonyms |-> syns]

\* names a page gives: the three forms of overall survival, the lower-case
\* abbreviation, and no name at all
CandidateNames ==
    {<<"OS">>, <<"Overall", " ", "Survival">>, <<"overall", " ", "survival">>,
     <<"os">>, <<" ", "OS">>, <<>>}

CandidateSynonyms == {<<>>, << <<"OS">> >>}

Candidates == {Candidate(n, s) : n \in CandidateNames, s \in CandidateSynonyms}

\* labels of a bucket: the canonicalised names of its items, first occurrences
Labels(items) ==
    FromKeys([i \in DOMAIN items |-> canonicalise_name(items[i].endpoint_name)])

\* labels[1:] without the empty ones and those equal to chosen up to case
Aliases(labels, chosen) ==
    SelectSeq(Tail(labels), LAMBDA l : l # <<>> /\ LowerText(l) # LowerText(chosen))

RECURSIVE Syns(_)
\* syns.extend(it.get("synonyms") or []) over the items
Syns(items) ==
    IF items = <<>> THEN <<>> ELSE Head(items).synonyms \o Syns(Tail(items))

\* what _llm_choose_canonical does when it is called: it raises when the
\* client cannot be made with model=... or has no method run; otherwise it
\* raises or returns a name and a list of aliases of the model's choosing
LlmNotCalled == [kind |-> "not called", chosen |-> <<>>, aliases |-> <<>>]

LlmAnswers(labels) ==
    {[kind |-> "raise", chosen |-> <<>>, aliases |-> <<>>]} \cup
    IF NewClient({"model"}, TRUE) = "ok" /\ "run" \in ClientMethods
    THEN {[kind |-> "return", chosen |-> c, aliases |-> a] :
            c \in ToSet(labels) \cup {<<"Overall", " ", "Survival">>},
            a \in {<<>>, Tail(labels)}}
    ELSE {}

\* merged[chosen] = entry on a dictionary kept in insertion order
DictSet(d, entry) ==
    IF \E i \in DOMAIN d : d[i].endpoint_name = entry.endpoint_name
    THEN [i \in DOMAIN d |->
            IF d[i].endpoint_name = entry.endpoint_name THEN entry ELSE d[i]]
    ELSE Append(d, entry)

\* position of the bucket with this key, 0 if there is none
BucketOf(buckets, key) ==
    IF \E i \in DOMAIN buckets : buckets[i].key = key
    THEN CHOOSE i \in DOMAIN buckets : buckets[i].key = key
    ELSE 0

RECURSIVE SeqsUpTo(_, _)
\* the sequences over S of length at most n
SeqsUpTo(S, n) ==
    IF n = 0 THEN {<<>>}
    ELSE LET shorter == SeqsUpTo(S, n - 1)
         IN  shorter \cup {Append(s, x) : s \in shorter, x \in S}

RollupInit(start) ==
    IF start
    THEN /\ k_use_llm \in BOOLEAN
         /\ k_cands \in SeqsUpTo(Candidates, MaxCands)
         /\ kpc = IF k_cands = <<>> THEN "group" ELSE "flatten"
         /\ k_df = <<>>
         /\ k_i = 1
         /\ k_buckets = <<>>
         /\ k_j = 1
         /\ k_merged = <<>>
    ELSE /\ kpc = "off"
         /\ k_use_llm = FALSE
         /\ k_cands = <<>>
         /\ k_df = <<>>
         /\ k_i = 1
         /\ k_buckets = <<>>
         /\ k_j = 1
         /\ k_merged = <<>>

\* _flatten_pages, one candidate: the name is stripped and the record kept
\* when the name is not empty
FlattenCandidate ==
    /\ kpc = "flatten"
    /\ LET cand == Head(k_cands)
           name == Strip(cand.endpoint_name, WhiteSpace)
       IN  k_df' = IF name # <<>>
                   THEN Append(k_df, Candidate(name, cand.synonyms))
                   ELSE k_df
    /\ k_cands' = Tail(k_cands)
    /\ kpc' = IF Tail(k_cands) = <<>> THEN "group" ELSE "flatten"
    /\ UNCHANGED <<k_use_llm, k_i, k_buckets, k_j, k_merged>>
    /\ UNCHANGED notRollup

\* _group_candidates on an empty frame
GroupEmpty ==
    /\ kpc = "group"
    /\ k_df = <<>>
    /\ k_merged' = <<>>
    /\ kpc' = "done"
    /\ UNCHANGED <<k_use_llm, k_cands, k_df, k_i, k_buckets, k_j>>
    /\ UNCHANGED notRollup

\* _group_candidates, first loop: one row goes to the bucket of its key
BucketRow ==
    /\ kpc = "group"
    /\ k_i <= Len(k_df)
    /\ LET raw_name == k_df[k_i].endpoint_name
           canon_guess == canonicalise_name(raw_name)
           key == norm(canon_guess)
           at == BucketOf(k_buckets, key)
       IN  k_buckets' =
             IF at = 0
             THEN Append(k_buckets, [key |-> key, items |-> <<k_df[k_i]>>])
             ELSE [k_buckets EXCEPT ![at].items = Append(@, k_df[k_i])]
    /\ k_i' = k_i + 1
    /\ UNCHANGED <<kpc, k_use_llm, k_cands, k_df, k_j, k_merged>>
    /\ UNCHANGED notRollup

\* _group_candidates, second loop: one bucket becomes an entry of merged
MergeBucket ==
    /\ kpc = "group"
    /\ k_df # <<>>
    /\ k_i > Len(k_df)
    /\ k_j <= Len(k_buckets)
    /\ LET items == k_buckets[k_j].items
           labels == Labels(items)
       IN  \E llm \in IF k_use_llm /\ Len(labels) > 1
                      THEN LlmAnswers(labels) ELSE {LlmNotCalled} :
             LET chosen0 == labels[1]
                 aliases0 == Aliases(labels, chosen0)
                 chosen == IF llm.kind = "return" /\ llm.chosen # <<>>
                           THEN llm.chosen ELSE chosen0
                 aliases1 == IF llm.kind = "return" /\ llm.aliases # <<>>
                             THEN FromKeys(aliases0 \o llm.aliases) ELSE aliases0
                 aliases == FromKeys(aliases1 \o DictGet(ALIAS_SEEDS, chosen, <<>>))
                 syns == union_lists(Syns(items), aliases)
             IN  k_merged' = DictSet(k_merged, Candidate(chosen, syns))
    /\ k_j' = k_j + 1
    /\ kpc' = IF k_j = Len(k_buckets) THEN "done" ELSE "group"
    /\ UNCHANGED <<k_use_llm, k_cands, k_df, k_i, k_buckets>>
    /\ UNCHANGED notRollup

NextRollup ==
    \/ FlattenCandidate
    \/ GroupEmpty
    \/ BucketRow
    \/ MergeBucket

\* ======================================================================
\*        taug_extraction/page_extractor.py: extract_pages
\* ======================================================================

\* a page_NNN.txt file: its text is empty or not, its JSON exists or not
PageFiles == [text : {"text", "empty"}, has_json : BOOLEAN]

\* txt_files[: int(limit)]
TakeFirst(files, limit) ==
    IF limit = {} THEN files
    ELSE LET l == CHOOSE n \in limit : TRUE
             stop == IF l >= 0
                     THEN (IF l < Len(files) THEN l ELSE Len(files))
                     ELSE (IF Len(files) + l > 0 THEN Len(files) + l ELSE 0)
         IN  SubSeq(files, 1, stop)

\* _call_llm: client.run under retry(attempts=3); the client has no such
\* method, so each attempt raises and the third exception leaves the wrapper
CallLlm == IF "run" \in ClientMethods THEN "raw" ELSE "AttributeError"

\* lines 171-181: the payload of a page that has text
PagePayload == IF CallLlm = "raw" THEN "payload" ELSE "error"

\* the JSON files before the call: "old" where one exists, "none" elsewhere
JsonBefore(files) ==
    [i \in DOMAIN files |-> IF files[i].has_json THEN "old" ELSE "none"]

RECURSIVE PagesLoop(_, _, _, _, _)
\* the for loop of extract_pages from position i on: the JSON files and the
\* list written when it ends
PagesLoop(files, i, overwrite, json, written) ==
    IF i > Len(files) THEN [json |-> json, written |-> written]
    ELSE IF json[i] # "none" /\ ~overwrite
    THEN PagesLoop(files, i + 1, overwrite, json, Append(written, i))
    ELSE IF files[i].text = "empty"
    THEN PagesLoop(files, i + 1, overwrite, [json EXCEPT ![i] = "empty"],
                   Append(written, i))
    ELSE PagesLoop(files, i + 1, overwrite, [json EXCEPT ![i] = PagePayload],
                   Append(written, i))

ExtractInit(start) ==
    IF start
    THEN /\ xpc = "start"
         /\ x_key \in BOOLEAN
         /\ x_files \in SeqsUpTo(PageFiles, MaxPageFiles)
         /\ x_limit \in {{}} \cup {{n} : n \in (-1)..MaxPageFiles}
         /\ x_overwrite \in BOOLEAN
         /\ x_dirs \in BOOLEAN
         /\ x_json = JsonBefore(x_files)
         /\ x_written = <<>>
         /\ x_error = ""
    ELSE /\ xpc = "off"
         /\ x_key = FALSE
         /\ x_files = <<>>
         /\ x_limit = {}
         /\ x_overwrite = FALSE
         /\ x_dirs = FALSE
         /\ x_json = <<>>
         /\ x_written = <<>>
         /\ x_error = ""

\* extract_pages, line 139: ensure_dirs()
EnsureDirs ==
    /\ xpc = "start"
    /\ x_dirs' = TRUE
    /\ xpc' = "client"
    /\ UNCHANGED <<x_key, x_files, x_limit, x_overwrite, x_json, x_written, x_error>>
    /\ UNCHANGED notExtract

\* extract_pages, lines 140-190: the client is made with model=..., then the
\* files are listed and cut to the limit, each is handled, the list returned
ClientAndPages ==
    /\ xpc = "client"
    /\ LET made == NewClient({"model"}, x_key)
           txt_files == TakeFirst(x_files, x_limit)
           after == PagesLoop(txt_files, 1, x_overwrite, x_json, <<>>)
       IN  IF made # "ok"
           THEN /\ x_error' = made
                /\ xpc' = "raised"
                /\ UNCHANGED <<x_json, x_written>>
           ELSE /\ x_json' = [i \in DOMAIN x_json |->
                                IF i \in DOMAIN txt_files THEN after.json[i]
                                ELSE x_json[i]]
                /\ x_written' = after.written
                /\ xpc' = "returned"
                /\ UNCHANGED x_error
    /\ UNCHANGED <<x_key, x_files, x_limit, x_overwrite, x_dirs>>
    /\ UNCHANGED notExtract

NextExtract ==
    \/ EnsureDirs
    \/ ClientAndPages

\* ======================================================================
\*                        analytics/03_nm_vs_ei.py
\* ======================================================================

\* A flag cell is a set holding its number, empty for a missing value (NaN);
\* the same for has_results.
\* column == v: false for a missing value
FlagIs(cell, v) == cell = {v}

\* has_results.fillna(False).astype(bool)
HasResults(cell) == cell = {TRUE}

\* nm = (df["NM_new_medicine"] == 1)
NmMask(r) == FlagIs(r.NM_new_medicine, 1)

\* ei = (df["EI_extension_of_indication"] == 1)
EiMask(r) == FlagIs(r.EI_extension_of_indication, 1)

\* neither = (NM == 0) & (EI == 0)
NeitherMask(r) == FlagIs(r.NM_new_medicine, 0) /\ FlagIs(r.EI_extension_of_indication, 0)

\* the labels of the cohorts, in the order of the list
CohortLabels == <<"NM = 1", "EI = 1", "NM = 0 & EI = 0">>

\* rows of the enhanced dataset, as far as the report reads them
CohortTrials ==
    [NM_new_medicine : {{0}, {1}, {}},
     EI_extension_of_indication : {{0}, {1}, {}},
     has_results : {{TRUE}, {FALSE}},
     primary_completion_date : {<<>>, <<2023, 12, 31>>}]

\* main() is called (start = TRUE), or is not part of the behaviour
CohortInit(start) ==
    /\ qpc = IF start THEN "load" ELSE "idle"
    /\ q_today \in IF start THEN Todays ELSE {Ordinal(2025, 1, 1)}
    /\ q_one_format \in IF start THEN BOOLEAN ELSE {FALSE}
    /\ q_table = <<>>
    /\ q_masks = <<>>
    /\ q_rows = <<>>

\* load_enhanced: one more row of the dataset
CohortLoadRow ==
    /\ qpc = "load"
    /\ Len(q_table) < MaxCohortTrials
    /\ \E r \in CohortTrials : q_table' = Append(q_table, r)
    /\ UNCHANGED <<qpc, q_today, q_one_format, q_masks, q_rows>>
    /\ UNCHANGED notCohorts

\* main, part 2: the eligible mask, the three cohort masks and one row of
\* counts per cohort
CohortReport ==
    /\ qpc = "load"
    /\ LET pcd == to_datetime([i \in DOMAIN q_table |-> q_table[i].primary_completion_date],
                              q_one_format)
           masks == [i \in DOMAIN q_table |->
                       [eligible |-> Eligible(pcd[i], q_today),
                        has_results |-> HasResults(q_table[i].has_results),
                        cohort |-> <<NmMask(q_table[i]), EiMask(q_table[i]),
                                     NeitherMask(q_table[i])>>]]
           count(c, elig, rep) ==
               Cardinality({i \in DOMAIN q_table :
                              /\ masks[i].cohort[c]
                              /\ elig => masks[i].eligible
                              /\ rep # "any" => (masks[i].has_results <=> rep = "reported")})
       IN  /\ q_masks' = masks
           /\ q_rows' = [c \in 1..3 |->
                           [cohort |-> CohortLabels[c],
                            n_all |-> count(c, FALSE, "any"),
                            n_eligible |-> count(c, TRUE, "any"),
                            reported_eligible |-> count(c, TRUE, "reported"),
                            overdue_eligible |-> count(c, TRUE, "overdue")]]
    /\ qpc' = "done"
    /\ UNCHANGED <<q_today, q_one_format, q_table>>
    /\ UNCHANGED notCohorts

NextCohorts ==
    \/ CohortLoadRow
    \/ CohortReport

\* ------------------------------------------------------ specifications
\* one operation is run, the others are not part of the behaviour
InitOf(op) ==
    /\ FetchInit(op = "fetch")
    /\ EnrichInit(op = "enrich")
    /\ ClassifyInit(op = "classify")
    /\ RunInit(op = "run")
    /\ MomentumInit(op = "momentum")
    /\ ShortlistInit(op = "shortlists")
    /\ RetryInit(op = "retry")
    /\ RollupInit(op = "rollup")
    /\ ExtractInit(op = "extract")
    /\ CohortInit(op = "cohorts")

InitFetch == InitOf("fetch")

SpecFetch == InitFetch /\ [][NextFetch]_vars

InitEnrich == InitOf("enrich")

SpecEnrich == InitEnrich /\ [][NextEnrich]_vars

InitClassify == InitOf("classify")

SpecClassify == InitClassify /\ [][NextClassify]_vars

InitRun == InitOf("run")

SpecRun == InitRun /\ [][NextRun]_vars

InitMomentum == InitOf("momentum")

SpecMomentum == InitMomentum /\ [][NextMomentum]_vars

InitShortlist == InitOf("shortlists")

SpecShortlist == InitShortlist /\ [][NextShortlist]_vars

InitRetry == InitOf("retry")

SpecRetry == InitRetry /\ [][NextRetry]_vars

InitRollup == InitOf("rollup")

SpecRollup == InitRollup /\ [][NextRollup]_vars

InitExtract == InitOf("extract")

SpecExtract == InitExtract /\ [][NextExtract]_vars

InitCohorts == InitOf("cohorts")

SpecCohorts == InitCohorts /\ [][NextCohorts]_vars

\* ======================================================================
\*                    properties of the enrichment layers
\* ======================================================================

\* canonical endpoints whose planned flag on the row is 1
PlannedOnRow == {c \in ToSet(CANONICAL_ENDPOINTS) : RowFlag(ep_cols.flags, canonical_to_col(c)) = 1}

\* titles of the measures of results_outcome_measures
RowTitles == collect_reported_endpoint_titles(row.results_outcome_measures).titles

\* C1: reporting_gap_flag is 1 exactly when some canonical endpoint whose
\* planned flag on the row is 1 is not among the canonical endpoints mapped
\* from the titles of results_outcome_measures (which, without a client, are
\* the rule matches of the titles).
C1_GapFlagIffPlannedNotReported ==
    epc = "done" =>
        /\ rep_cols.reporting_gap_flag \in {0, 1}
        /\ rep_cols.reporting_gap_flag = 1 <=> (PlannedOnRow \ ToSet(reported) # {})
        /\ ~has_client =>
              ToSet(reported) =
                  {rule_match_canonical(RowTitles[i], resources.synonyms, resources.canonical) :
                       i \in DOMAIN RowTitles} \ {NoName}

\* planned {PFS, OS} and reported {PFS}: the flag is 1
C1_Witness ==
    /\ epc = "done"
    /\ PlannedOnRow = {PFS, OS}
    /\ ToSet(reported) = {PFS}
    /\ rep_cols.reporting_gap_flag = 1

\* C2: after layer A the row carries the 15 canonical flag columns, each 0
\* or 1, whatever the row and the dictionary file.
C2_AllFifteenFlags ==
    epc \in {"layerB", "done", "raised"} =>
        /\ DOMAIN ep_cols.flags = ToSet(CANONICAL_COLS)
        /\ Cardinality(DOMAIN ep_cols.flags) = 15
        /\ \A col \in DOMAIN ep_cols.flags : ep_cols.flags[col] \in {0, 1}

\* C3: detected_endpoint_names lists the canonical endpoints found in the
\* posted results (those mapped from the titles of results_outcome_measures).
C3_DetectedAreReported ==
    epc = "done" => ToSet(ep_cols.detected_endpoint_names) = ToSet(reported)

\* C4: the seven CONSORT flags are 0 or 1 and consort_results_score is their
\* sum, between 0 and 7.
C4_ConsortScoreIsSum ==
    epc = "done" =>
        /\ \A f \in {rep_cols.consort_participant_flow, rep_cols.consort_recruitment,
                    rep_cols.consort_baseline, rep_cols.consort_numbers_analyzed,
                    rep_cols.consort_outcomes_estimation,
                    rep_cols.consort_ancillary_analyses, rep_cols.consort_harms} : f \in {0, 1}
        /\ rep_cols.consort_results_score \in 0..7
        /\ rep_cols.consort_results_score =
              rep_cols.consort_participant_flow + rep_cols.consort_recruitment +
              rep_cols.consort_baseline + rep_cols.consort_numbers_analyzed +
              rep_cols.consort_outcomes_estimation + rep_cols.consort_ancillary_analyses +
              rep_cols.consort_harms

\* a row on which the seven flags are all set
C4_Witness ==
    /\ epc = "done"
    /\ rep_cols.consort_ancillary_analyses = 1
    /\ rep_cols.consort_results_score = 7

\* the phrase is matched by the rule with the resources of the run
RuleMatches(text) ==
    rule_match_canonical(text, resources.synonyms, resources.canonical) # NoName

\* C12: the client is asked only about phrases (planned phrases in layer A,
\* result titles in layer B) on which the rule found no canonical endpoint,
\* and is never asked when no client is configured.
C12_ClientOnlyAfterRuleMiss ==
    /\ \A i \in DOMAIN llm_calls : ~RuleMatches(llm_calls[i])
    /\ ~has_client => llm_calls = <<>>
    /\ ToSet(llm_calls) \subseteq ToSet(PlannedTexts(row)) \cup ToSet(RowTitles)

\* a row with a phrase matched by the rule and another one the client was
\* asked about, in each layer
C12_Witness ==
    /\ epc = "done"
    /\ \E i \in DOMAIN PlannedTexts(row) :
          /\ RuleMatches(PlannedTexts(row)[i])
          /\ \E j \in DOMAIN llm_calls : llm_calls[j] \in ToSet(PlannedTexts(row))
    /\ \E i \in DOMAIN RowTitles :
          /\ RuleMatches(RowTitles[i])
          /\ \E j \in DOMAIN llm_calls : llm_calls[j] \in ToSet(RowTitles)

\* ======================================================================
\*             properties of fetch_breast_cancer_trials
\* ======================================================================

\* the step sends an HTTP request
RequestSent == call_sent' = call_sent + 1

\* rows of the returned table for an identifier
RowsOf(n) == {i \in DOMAIN df : df[i].nct_id = n}

\* C5: after fetch_breast_cancer_trials every identifier seen in some study
\* has exactly one row in the final table (none when the caller's year range
\* drops it), the fields of that row are those of the first study seen with
\* the identifier, and its sites are the union of the sites of all studies
\* seen with it.
C5_OneRowFirstFieldsAllSites ==
    pc = "returned" =>
        \A n \in NctIds : \A first \in first_fields[n] :
            /\ Cardinality(RowsOf(n)) <= 1
            /\ InYearRange(first, start_year, end_year) => Cardinality(RowsOf(n)) = 1
            /\ \A i \in RowsOf(n) :
                  /\ df[i].title = first.title
                  /\ df[i].start_date = first.start_date
                  /\ df[i].site_count = Cardinality(seen_sites[n])
                  /\ ToSet(df[i].sites_compact) = {CompactItem(s) : s \in seen_sites[n]}

\* C6: site_count of every trial of the table is the number of distinct
\* (facility, city, state, postal code, country, status) tuples among the
\* site observations accumulated for the trial.
C6_SiteCountDistinctTuples ==
    pc \in {"filter", "returned"} =>
        \A i \in DOMAIN df :
            df[i].site_count = Cardinality(ToSet(trial_sites[df[i].nct_id]))

\* a trial of the table whose observations hold a repeated tuple and two
\* tuples that differ in the status only
C6_Witness ==
    /\ pc = "returned"
    /\ \E i \in DOMAIN df :
          /\ Len(trial_sites[df[i].nct_id]) > df[i].site_count
          /\ {siteA, siteB} \subseteq ToSet(trial_sites[df[i].nct_id])
          /\ df[i].site_count = 3

\* C7: a response whose status is neither 200 nor a retry status ends the
\* call with an error at once.
C7_OtherStatusFatal ==
    (call_sent > 0 /\ resp_status \notin ({200} \cup RetryStatuses)) => pc = "raised"

\* C8: while the registry answers with retry statuses the request is retried
\* at most Retries times, the failure after the last retry raises the
\* "Exceeded retries" error, and a 200 response ends the loop.
C8_BoundedRetries ==
    /\ retried <= Retries
    /\ call_sent <= Retries + 1 + spins
    /\ pc = "request" => (retried = transients /\ attempt = transients)
    /\ (error = "HTTPError: Exceeded retries") <=> (transients = Retries + 1)
    /\ error = "HTTPError: Exceeded retries" =>
          (pc = "raised" /\ retried = Retries /\ resp_status \in RetryStatuses)
    /\ (call_sent > 0 /\ resp_status = 200) =>
          (pc = "page" \/ (pc = "raised" /\ error = "RuntimeError: Invalid JSON"))

\* the call gave up after the last retry
C8_Witness ==
    pc = "raised" /\ error = "HTTPError: Exceeded retries" /\ retried = Retries

\* C9: a request is sent only while no page is being processed, the first
\* one without a token and each later one with the nextPageToken of the page
\* received before it; none is sent once a page came back with no studies or
\* no nextPageToken.
C9_SequentialPagination ==
    [][RequestSent =>
        /\ pc = "request"
        /\ ~page_final
        /\ sent_token' = IF page_reqs' = 1 THEN NONE ELSE prev_next
        /\ page_reqs' > 1 => Truthy(prev_next)]_vars

\* the second page was requested with the token of the first
C9_Witness == page_reqs = 2 /\ pc = "page" /\ sent_token = PageTokenOf(1)

\* C10: the number of accumulated trial records never exceeds max_records,
\* and once records are accumulated up to max_records no study is processed
\* and no page requested.
C10_NeverExceedsMaxRecords ==
    /\ Cardinality(DOMAIN trials) <= max_records
    /\ (trials # EmptyMap /\ Cardinality(DOMAIN trials) >= max_records) =>
          pc \notin {"request", "page", "for"}

\* C11: when at least one trial was fetched, the unfiltered table is written
\* first (one row per accumulated trial, in arrival order) and the table
\* written last holds exactly the accumulated trials whose start year lies
\* within the bounds that are given, each once.
C11_LastTableIsYearRange ==
    /\ pc = "filter" =>
          /\ csv_writes = 1
          /\ [i \in DOMAIN csv |-> csv[i].nct_id] = nct_order
    /\ (pc = "returned" /\ nct_order # <<>>) =>
          /\ csv_writes = 2
          /\ csv = df
          /\ {csv[i].nct_id : i \in DOMAIN csv} =
                 {n \in DOMAIN trials : InYearRange(trials[n], start_year, end_year)}
          /\ Len(csv) = Cardinality({csv[i].nct_id : i \in DOMAIN csv})

\* ======================================================================
\*               properties of annotate_classification_for_row
\* ======================================================================

\* C17: whenever the adjudication by the client fails (the call raises, the
\* client returns its fallback value, or a returned field cannot be
\* converted), NM_new_medicine and EI_extension_of_indication are the
\* rule-derived values.
C17_FailureKeepsRuleValues ==
    (cpc = "returned" /\ cls_answer.kind \in {"raises", "fallback", "malformed"}) =>
        /\ cls_cols.NM_new_medicine = nm_rule(text_pool(cls_row))
        /\ cls_cols.EI_extension_of_indication = ei_rule(text_pool(cls_row))

\* ======================================================================
\*                  properties of run() of the pipeline
\* ======================================================================

\* the positions 1..n in order
PositionsUpTo(n) == [i \in 1..n |-> i]

\* C13: the rows are processed one at a time in input order; each goes
\* through layer A, then B, then C before it is appended; layer B reads the
\* flags layer A produced for that same row (its gap flag is 1 exactly when
\* one of them is 1 for an endpoint that is not reported); and the final
\* output of a run that returns has one row per input row, in input order.
C13_RowsInOrderThroughLayers ==
    /\ rows_out = PositionsUpTo(Len(rows_out))
    /\ rpc \in {"layerA", "layerB", "layerC", "append"} => row_dict.idx = Len(rows_out) + 1
    /\ rpc = "layerA" => row_dict.layers = <<>>
    /\ rpc = "layerB" => row_dict.layers = <<"A">>
    /\ rpc = "layerC" => row_dict.layers = <<"A", "B">>
    /\ rpc = "append" => row_dict.layers = <<"A", "B", "C">>
    /\ rpc \in {"layerC", "append"} =>
          (row_dict.rep_cols.reporting_gap_flag = 1 <=>
              \E c \in ToSet(CANONICAL_ENDPOINTS) :
                  /\ RowFlag(row_dict.ep_cols.flags, canonical_to_col(c)) = 1
                  /\ c \notin ToSet(row_dict.reported))
    /\ (raw_csv = "rows" /\ rpc \in {"final", "returned"}) => row_dict.idx = Len(rows_out)
    /\ (raw_csv = "rows" /\ rpc = "returned") =>
          /\ out_files = AllFiles(PositionsUpTo(row_dict.idx))
          /\ row_dict.idx >= 1

\* a run over several rows that returned, the last row with a reporting gap
C13_Witness ==
    /\ rpc = "returned"
    /\ Len(rows_out) = 3
    /\ row_dict.layers = <<"A", "B", "C">>
    /\ row_dict.rep_cols.reporting_gap_flag = 1

\* C14: no layer raises to run(): whatever the row and the client do, run()
\* is not ended by an exception of one of the three annotate functions.
C14_LayersNeverRaise ==
    /\ run_error \notin {"annotate_endpoints_for_row", "annotate_reporting_for_row",
                         "annotate_classification_for_row"}
    /\ rpc = "raised" => run_error = "read_csv_safely"

\* C15: checkpoints are written exactly when the number of processed rows is
\* a multiple of 100, each holds (as CSV and as Parquet) all rows enriched
\* so far, and the checkpoint is always a prefix of the rows processed, and
\* of the final output.
C15_CheckpointEveryHundredRows ==
    /\ ckpt_at = [k \in 1..(Len(rows_out) \div ROW_FLUSH_EVERY) |-> k * ROW_FLUSH_EVERY]
    /\ IF ckpt_at = <<>>
       THEN ckpt = NoFiles
       ELSE /\ ckpt.csv = {SubSeq(rows_out, 1, ckpt_at[Len(ckpt_at)])}
            /\ ckpt.parquet = ckpt.csv
    /\ rpc = "returned" =>
          \A final \in out_files.csv : \A rows \in ckpt.csv :
              Len(rows) <= Len(final) /\ rows = SubSeq(final, 1, Len(rows))

\* a run of 201 rows: checkpoints at 100 and 200, the last one short of the
\* final output
C15_Witness ==
    /\ rpc = "returned"
    /\ Len(rows_out) = 2 * ROW_FLUSH_EVERY + 1
    /\ ckpt_at = <<ROW_FLUSH_EVERY, 2 * ROW_FLUSH_EVERY>>
    /\ ckpt.csv = {PositionsUpTo(2 * ROW_FLUSH_EVERY)}

\* C16: on an empty raw dataset (file missing, or present without data rows)
\* run() writes the three outputs, all empty, and returns without raising and
\* without building the resources.
C16_EmptyDatasetGivesEmptyOutputs ==
    (raw_csv \in {"missing", "blank", "header"} /\ rpc # "read") =>
        /\ rpc = "returned"
        /\ run_error = NONE
        /\ out_files = AllFiles(<<>>)
        /\ run_resources = [synonyms |-> <<>>, canonical |-> <<>>]

\* ======================================================================
\*                     properties of the reports
\* ======================================================================

\* C18: with today = 2025-01-01 a trial with PCD 2023-12-31 is eligible, one
\* with PCD 2024-01-02 is not eligible, and one without PCD is never
\* eligible.
C18_EligibilityBoundary ==
    (mpc \in {"masks", "done"} /\ m_today = Ordinal(2025, 1, 1)) =>
        \A i \in DOMAIN m_masks :
            /\ m_masks[i].pcd = {Ordinal(2023, 12, 31)} => m_masks[i].eligible
            /\ m_masks[i].pcd = {Ordinal(2024, 1, 2)} => ~m_masks[i].eligible
            /\ m_masks[i].pcd = NaT => ~m_masks[i].eligible

\* C18, amended: with today = 2025-01-01 a trial with PCD 2023-12-31 is
\* eligible, and so is one with PCD 2024-01-02 (2024 is a leap year: exactly
\* 365 days have elapsed); one with PCD 2024-01-03 is not eligible, and one
\* without PCD is never eligible, whatever the day.
C18_EligibilityBoundaryAmended ==
    mpc \in {"masks", "done"} =>
        \A i \in DOMAIN m_masks :
            /\ m_masks[i].pcd = NaT => ~m_masks[i].eligible
            /\ m_today = Ordinal(2025, 1, 1) =>
                  /\ m_masks[i].pcd = {Ordinal(2023, 12, 31)} => m_masks[i].eligible
                  /\ m_masks[i].pcd = {Ordinal(2024, 1, 2)} => m_masks[i].eligible
                  /\ m_masks[i].pcd = {Ordinal(2024, 1, 3)} => ~m_masks[i].eligible

\* on 2025-01-01, a trial with PCD 2024-01-02 found eligible next to one with
\* PCD 2024-01-03 found not eligible
C18_Witness ==
    /\ mpc = "masks"
    /\ m_today = Ordinal(2025, 1, 1)
    /\ Len(m_masks) = 2
    /\ m_masks[1].pcd = {Ordinal(2024, 1, 2)} /\ m_masks[1].eligible
    /\ m_masks[2].pcd = {Ordinal(2024, 1, 3)} /\ ~m_masks[2].eligible

\* the number of the listed classes the record is in
ClassesOf(m) ==
    Cardinality({c \in {"overdue", "reported_on_time", "reported_late_or_unknown"} : m[c]})

\* C19: every eligible trial is in exactly one of overdue (no results),
\* reported on time (results, posted date on or before PCD + 365 days) and
\* reported late/unknown (results, posted date after the due date or
\* missing); a trial that is not eligible is in none, and each year's counts
\* of the three classes add up to its count of eligible trials.
C19_EligibleInExactlyOneClass ==
    /\ mpc \in {"masks", "done"} =>
          \A i \in DOMAIN m_masks :
              LET m == m_masks[i]
                  late == \E p \in m.pcd : \E q \in m.res_posted : q > p + ELIGIBILITY_LAG_DAYS
              IN  /\ ClassesOf(m) = IF m.eligible THEN 1 ELSE 0
                  /\ m.eligible =>
                        /\ m.overdue <=> ~m_table[i].has_results
                        /\ m.reported_on_time <=>
                              (m_table[i].has_results /\ m.res_posted # NaT /\ ~late)
                        /\ m.reported_late_or_unknown <=>
                              (m_table[i].has_results /\ (m.res_posted = NaT \/ late))
    /\ mpc = "done" =>
          \A g \in g_out :
              /\ g.eligible = g.overdue + g.reported_on_time + g.reported_late_or_unknown
              /\ g.reported_eligible = g.reported_on_time + g.reported_late_or_unknown
              /\ g.eligible <= g.n_total

\* a year with one trial of each kind counted: reported one day late and
\* not eligible
C19_Witness ==
    /\ mpc = "done"
    /\ Len(m_masks) = 2
    /\ m_masks[1].reported_late_or_unknown /\ m_masks[1].res_posted # NaT
    /\ ~m_masks[2].eligible /\ m_table[2].has_results
    /\ \E g \in g_out : g.n_total = 2 /\ g.eligible = 1 /\ g.reported_late_or_unknown = 1

\* the rows written to one of the four shortlists
Shortlisted == ToSet(shortlists.sl1 \o shortlists.sl2 \o shortlists.sl3 \o shortlists.sl4)

\* C20: every trial written to one of the four shortlists is COMPLETED or
\* TERMINATED and has at least 3 years since completion.
C20_ShortlistsAreOldCompleted ==
    spc = "written" =>
        \A r \in Shortlisted :
            /\ r.overall_status \in {"COMPLETED", "TERMINATED"}
            /\ \E v \in years_since_completion(r.completion_date, s_year) : v >= 3

\* ======================================================================
\*               further properties of the classification layer
\* ======================================================================

\* C24: classify_nm_ei is called exactly when a client is configured and the
\* two rules agree (both 0 or both 1); when exactly one rule fires the client
\* is not called, the rule values are final and no explanation is attached.
C24_AdjudicatorIffClientAndAmbiguous ==
    cpc = "returned" =>
        LET nm == nm_rule(text_pool(cls_row))
            ei == ei_rule(text_pool(cls_row))
        IN  /\ cls_answer # NotCalled <=> (cls_client /\ nm = ei)
            /\ nm + ei = 1 =>
                  /\ cls_answer = NotCalled
                  /\ cls_cols.NM_new_medicine = nm
                  /\ cls_cols.EI_extension_of_indication = ei
                  /\ cls_cols.nm_ei_explanation = ""

\* a row on which only the new-medicine rule fires, with a client at hand
C24_Witness ==
    /\ cpc = "returned"
    /\ cls_client
    /\ nm_rule(text_pool(cls_row)) = 1
    /\ ei_rule(text_pool(cls_row)) = 0
    /\ cls_answer = NotCalled
    /\ cls_cols.NM_new_medicine = 1

\* ======================================================================
\*                 further properties of the reporting layer
\* ======================================================================

\* the cell is a list in the compact form of the retrieval client: no
\* measure has "classes"
IsCompact(cell) ==
    cell.kind = "list" /\ \A i \in DOMAIN cell.items : cell.items[i].classes = <<>>

\* C25: for results_outcome_measures in the compact form,
\* consort_numbers_analyzed is 1 when some measurement has a value and 0
\* only when none has.
C25_CompactValuesCountAsAnalyzed ==
    (epc = "done" /\ IsCompact(row.results_outcome_measures)) =>
        (rep_cols.consort_numbers_analyzed = 1 <=>
            \E i \in DOMAIN row.results_outcome_measures.items :
                \E v \in ToSet(row.results_outcome_measures.items[i].groups) : v # NONE)

\* a date cell that holds a date: neither an empty cell nor a missing column
DatePresent(cell) == cell \notin {NONE, NAN, ""}

\* C26: consort_recruitment is 1 exactly when the start date is present and
\* one of primary completion date and completion date is.
C26_RecruitmentIffDatesPresent ==
    epc = "done" =>
        (rep_cols.consort_recruitment = 1 <=>
            /\ DatePresent(row.start_date)
            /\ DatePresent(row.primary_completion_date) \/ DatePresent(row.completion_date))

\* ======================================================================
\*                  further properties of the retrieval
\* ======================================================================

\* C28: every trial of the table built after the pagination loop has the
\* sites of the study in which it was first seen in its site_count,
\* site_countries and sites_compact, the trial that makes the number of
\* records reach max_records included.
C28_FirstRecordSitesIncluded ==
    pc \in {"filter", "returned"} =>
        \A i \in DOMAIN df :
            LET first == first_sites[df[i].nct_id]
            IN  /\ df[i].site_count >= Cardinality(first)
                /\ {CompactItem(s) : s \in first} \subseteq ToSet(df[i].sites_compact)
                /\ {s.country : s \in first} \ {NONE, ""} \subseteq df[i].site_countries

\* C30: a page request that ends in a fatal error (retries exhausted, 404 or
\* another error status, a body that is not JSON) makes the function raise,
\* and the output CSV has not been written by then, however many pages were
\* fetched before: the CSV is written only after the pagination loop.
C30_FatalErrorLeavesCsvUntouched ==
    /\ pc \in {"request", "page", "for", "after_for", "raised"} =>
          (csv_writes = 0 /\ csv = <<>>)
    /\ (call_sent > 0 /\ resp_status \in (400..599) \ RetryStatuses) => pc = "raised"
    /\ transients = Retries + 1 => pc = "raised"
    /\ error # NONE => pc = "raised"

\* the request of the second page failed after the first page had been
\* accumulated
C30_Witness ==
    /\ pc = "raised"
    /\ page_reqs = 2
    /\ trials # EmptyMap
    /\ resp_status = 404
    /\ csv_writes = 0

\* ======================================================================
\*                       properties of retry
\* ======================================================================

RECURSIVE Pow(_, _)
Pow(b, e) == IF e = 0 THEN 1 ELSE b * Pow(b, e - 1)

\* C23: with attempts = n >= 1 the wrapped function is called at most n
\* times, the result of the first call that succeeds is returned, the
\* wrapper sleeps delay_sec * backoff^(i-1) after the i-th failed call for
\* i < n and not after the n-th, the exception of the n-th call is raised
\* when all fail, and an exception outside the set is raised at once.
C23_RetryAtMostNCalls ==
    (tpc # "idle" /\ t_attempts >= 1) =>
        /\ t_calls <= t_attempts
        /\ t_sleeps = [k \in 1..Len(t_sleeps) |-> t_delay * Pow(t_backoff, k - 1)]
        /\ Len(t_sleeps) <= t_attempts - 1
        /\ tpc = "loop" => Len(t_sleeps) = t_calls
        /\ tpc = "returned" =>
              /\ t_result = RetryResult("return", "value", t_calls)
              /\ Len(t_sleeps) = t_calls - 1
        /\ tpc = "raised" =>
              /\ t_result.kind = "raise"
              /\ t_result.at = t_calls
              /\ Len(t_sleeps) = t_calls - 1
              /\ t_result.what = "listed" => t_calls = t_attempts

\* three attempts all failed: two sleeps, the second longer by the backoff,
\* and the third exception raised
C23_Witness ==
    /\ tpc = "raised"
    /\ t_attempts = 3
    /\ t_calls = 3
    /\ t_delay = 2 /\ t_backoff = 3
    /\ t_sleeps = <<2, 6>>
    /\ t_result = RetryResult("raise", "listed", 3)

\* C29: whatever attempts is, the wrapped function is called at least once
\* and the call ends with the function's own return value or exception.
C29_WrappedFunctionAlwaysInvoked ==
    tpc \in {"returned", "raised"} =>
        /\ t_calls >= 1
        /\ t_result.at = t_calls
        /\ t_result.what \in {"value", "listed", "other"}

\* ======================================================================
\*                       properties of the roll-up
\* ======================================================================

\* the three forms of the name
ThreeForms ==
    {<<"OS">>, <<"Overall", " ", "Survival">>, <<"overall", " ", "survival">>}

\* the frame holds the three forms, each at least once and nothing else
FrameHoldsThreeForms ==
    {k_df[i].endpoint_name : i \in DOMAIN k_df} = ThreeForms

\* C21: when the page candidates are "OS", "Overall Survival" and "overall
\* survival", in whatever order the pages give them, the dictionary has
\* exactly one entry, it is named "Overall Survival", and its synonyms
\* contain "OS" and "overall survival".
C21_ThreeFormsGiveOneEntry ==
    (kpc = "done" /\ FrameHoldsThreeForms) =>
        /\ Len(k_merged) = 1
        /\ k_merged[1].endpoint_name = <<"Overall", " ", "Survival">>
        /\ {<<"OS">>, <<"overall", " ", "survival">>} \subseteq ToSet(k_merged[1].synonyms)

\* ======================================================================
\*                     properties of the page extractor
\* ======================================================================

\* C22: every run of extract_pages returns, with one path per page it
\* considered (the files of the directory up to the limit), and each of
\* these pages has an output JSON afterwards, whatever failed for it.
C22_FailuresNeverAbortBatch ==
    xpc \in {"returned", "raised"} =>
        /\ xpc = "returned"
        /\ x_written = [i \in DOMAIN TakeFirst(x_files, x_limit) |-> i]
        /\ \A i \in DOMAIN TakeFirst(x_files, x_limit) : x_json[i] # "none"

\* ======================================================================
\*                     properties of the NM/EI report
\* ======================================================================

\* the cohorts a trial is counted in
CohortsOf(i) == {c \in 1..3 : q_masks[i].cohort[c]}

\* C27: in the NM/EI report no trial is counted in more than one of the
\* three cohorts, and a trial whose two flags are 0 or 1 is counted in
\* exactly one.
C27_CohortsMutuallyExclusive ==
    qpc = "done" =>
        \A i \in DOMAIN q_table :
            /\ Cardinality(CohortsOf(i)) <= 1
            /\ (q_table[i].NM_new_medicine # {} /\ q_table[i].EI_extension_of_indication # {})
                  => Cardinality(CohortsOf(i)) = 1

====
